---- MODULE Spec2Model ----
(***************************************************************************)
(* A model of the jsonmap mapping engine (src/jsonmap.go, lines 1-834) and *)
(* of the validators it is configured with (src/validators.go, 1-306).     *)
(*                                                                         *)
(* Bytes are modelled as sequences of JSON tokens, parsed JSON as the Go   *)
(* values encoding/json produces (nil, string, float64, bool,              *)
(* []interface{}, map[string]interface{}), destinations as Go values       *)
(* (structs, pointers, interfaces, slices, maps).  Every Unmarshal         *)
(* operator returns the record [err, dst, panic, log]: the error value,    *)
(* the destination as the call leaves it, the panic message ("" when the   *)
(* call returns) and a history of what the call visited.  log is a ghost   *)
(* field: no operator reads it to decide what to do.                       *)
(***************************************************************************)
EXTENDS Integers, Sequences, FiniteSets, TLC

\* ---------------------------------------------------------------- bounds
\* API calls made on one destination
MaxCalls == 2
\* elements of an input array
MaxElems == 2

\* ------------------------------------------------------ nil-able fields
None == <<>>
Some(x) == <<x>>
IsNone(o) == o = <<>>
Get(o) == o[1]

\* ------------------------------------------------- parsed JSON (Go side)
JNull == [k |-> "nil"]
JStr(s) == [k |-> "string", v |-> s]
\* a float64, held in tenths: 12.1 is JNum(121)
JNum(t) == [k |-> "float64", t |-> t]
JBool(b) == [k |-> "bool", b |-> b]
JList(s) == [k |-> "list", l |-> s]
JObj(f) == [k |-> "object", m |-> f]
EmptyFn == [x \in {} |-> JNull]
Has(m, key) == key \in DOMAIN m

\* the object keys of the model, in byte order (encoding/json sorts map keys)
SortedKeys ==
    << "0", "a_bool", "an_int", "anything", "at_least", "at_most", "bar", "baz",
       "between", "both", "correct", "exactly", "extra",
       "foo", "inner_thing", "inner_things", "inner_type", "interfaces", "invalid",
       "label", "name",
       "neither", "note", "primary_key", "some_field", "strings", "thing", "things" >>
KeysOf(m) == SelectSeq(SortedKeys, LAMBDA key : key \in DOMAIN m)

\* ----------------------------------------------------------------- bytes
Tok(t) == [t |-> t]
TStr(s) == [t |-> "str", s |-> s]
TNum(n) == [t |-> "num", n |-> n]

RECURSIVE Flat(_)
Flat(ss) == IF ss = <<>> THEN <<>> ELSE Head(ss) \o Flat(Tail(ss))

RECURSIVE Join(_, _)
Join(ss, sep) ==
    IF ss = <<>> THEN <<>>
    ELSE IF Len(ss) = 1 THEN Head(ss)
    ELSE Head(ss) \o sep \o Join(Tail(ss), sep)

\* json.Unmarshal's scanner and decoder, on tokens: [ok, v, next]
RECURSIVE ParseValue(_, _), ParseElems(_, _, _), ParseMembers(_, _, _)
ParseFail == [ok |-> FALSE, v |-> JNull, next |-> 0]
ParseValue(toks, i) ==
    IF i > Len(toks) THEN ParseFail
    ELSE LET tk == toks[i] IN
      CASE tk.t = "str" -> [ok |-> TRUE, v |-> JStr(tk.s), next |-> i + 1]
        [] tk.t = "num" -> [ok |-> TRUE, v |-> JNum(tk.n), next |-> i + 1]
        [] tk.t = "true" -> [ok |-> TRUE, v |-> JBool(TRUE), next |-> i + 1]
        [] tk.t = "false" -> [ok |-> TRUE, v |-> JBool(FALSE), next |-> i + 1]
        [] tk.t = "null" -> [ok |-> TRUE, v |-> JNull, next |-> i + 1]
        [] tk.t = "[" ->
             IF i + 1 <= Len(toks) /\ toks[i + 1].t = "]"
             THEN [ok |-> TRUE, v |-> JList(<<>>), next |-> i + 2]
             ELSE ParseElems(toks, i + 1, <<>>)
        [] tk.t = "{" ->
             IF i + 1 <= Len(toks) /\ toks[i + 1].t = "}"
             THEN [ok |-> TRUE, v |-> JObj(EmptyFn), next |-> i + 2]
             ELSE ParseMembers(toks, i + 1, EmptyFn)
        [] OTHER -> ParseFail
ParseElems(toks, i, acc) ==
    LET e == ParseValue(toks, i) IN
    IF ~e.ok \/ e.next > Len(toks) THEN ParseFail
    ELSE IF toks[e.next].t = "]"
         THEN [ok |-> TRUE, v |-> JList(Append(acc, e.v)), next |-> e.next + 1]
    ELSE IF toks[e.next].t = ","
         THEN ParseElems(toks, e.next + 1, Append(acc, e.v))
    ELSE ParseFail
ParseMembers(toks, i, acc) ==
    IF i + 1 > Len(toks) \/ toks[i].t # "str" \/ toks[i + 1].t # ":"
    THEN ParseFail
    ELSE LET e == ParseValue(toks, i + 2)
             \* a repeated key overwrites the earlier entry
             acc2 == [x \in DOMAIN acc \cup {toks[i].s} |->
                        IF x = toks[i].s THEN e.v ELSE acc[x]]
         IN IF ~e.ok \/ e.next > Len(toks) THEN ParseFail
            ELSE IF toks[e.next].t = "}"
                 THEN [ok |-> TRUE, v |-> JObj(acc2), next |-> e.next + 1]
            ELSE IF toks[e.next].t = ","
                 THEN ParseMembers(toks, e.next + 1, acc2)
            ELSE ParseFail

\* json.Valid
jsonValid(toks) ==
    LET p == ParseValue(toks, 1) IN p.ok /\ p.next = Len(toks) + 1

\* json.Unmarshal(data, &partial) with partial a map[string]interface{}:
\* the whole text is scanned first, then a null makes partial a nil map, which
\* reads as a map without keys, and any other non-object is a type error
jsonUnmarshal(data) ==
    LET p == ParseValue(data, 1) IN
    IF ~(p.ok /\ p.next = Len(data) + 1)
    THEN [err |-> "SyntaxError", v |-> JObj(EmptyFn)]
    ELSE IF p.v.k = "nil" THEN [err |-> "", v |-> JObj(EmptyFn)]
    ELSE IF p.v.k = "object" THEN [err |-> "", v |-> p.v]
    ELSE [err |-> "UnmarshalTypeError", v |-> JObj(EmptyFn)]

\* ---------------------------------------------------------------- errors
NilErr == [kind |-> "nil"]

NewValidationError(reason) ==
    [kind |-> "FieldError", Field |-> "", Message |-> reason, FieldErrors |-> <<>>]

NewValidationErrorWithField(field, message) ==
    [kind |-> "FieldError", Field |-> field, Message |-> message,
     FieldErrors |-> <<>>]

\* errors.New / fmt.Errorf: an error that is no *FieldError
errorsNew(message) == [kind |-> "error", Message |-> message]

SetField(e, field) == [e EXCEPT !.Field = field]

\* a faulty AddError: keeps the first child only
FieldErrorAddErrorFirstOnly(e, err) ==
    IF e.FieldErrors = <<>> THEN [e EXCEPT !.FieldErrors = Append(@, err)] ELSE e

FieldErrorAddError(e, err) == [e EXCEPT !.FieldErrors = Append(@, err)]

NewFlattenedPathError(path, message) == [Path |-> path, Message |-> message]

\* A Go []string: a backing array, a length and a capacity.  append writes in
\* place when there is room, so the slices a caller hands to several callees
\* share one array.
NilSlice == [arr |-> <<>>, len |-> 0, cap |-> 0]
GoAppend(s, x) ==
    IF s.len < s.cap
    THEN [arr |-> [s.arr EXCEPT ![s.len + 1] = x], len |-> s.len + 1, cap |-> s.cap]
    ELSE LET newcap == IF s.cap = 0 THEN 1 ELSE 2 * s.cap IN
         [arr |-> [i \in 1..newcap |->
                     IF i <= s.len THEN s.arr[i] ELSE IF i = s.len + 1 THEN x ELSE ""],
          len |-> s.len + 1, cap |-> newcap]

\* a faulty pointer string: the tokens joined by '/', with no leading '/'
RECURSIVE PointerStringUnrooted(_)
PointerStringUnrooted(tokens) ==
    IF tokens = <<>> THEN ""
    ELSE Head(tokens) \o (IF Len(tokens) > 1 THEN "/" ELSE "")
         \o PointerStringUnrooted(Tail(tokens))

\* jsonpointer.NewJSONPointerFromTokens(&path).String(); no token of the model
\* holds a '/' or a '~', the two characters a JSON pointer escapes
RECURSIVE PointerString(_)
PointerString(tokens) ==
    IF tokens = <<>> THEN "" ELSE "/" \o Head(tokens) \o PointerString(Tail(tokens))

\* (*ValidationError).AddError: [e, arr], the list so far and the caller's
\* backing array as the call leaves it
RECURSIVE ValidationErrorAddError(_, _, _), AddErrorChildren(_, _, _, _)
ValidationErrorAddError(e, err, path) ==
    LET p == GoAppend(path, err.Field)
        e1 == IF err.Message # ""
              THEN Append(e, NewFlattenedPathError(
                                PointerString(SubSeq(p.arr, 1, p.len)), err.Message))
              ELSE e
        r == AddErrorChildren(e1, err.FieldErrors, 1, p)
    IN [e |-> r.e, arr |-> IF path.len < path.cap THEN r.arr ELSE path.arr]
AddErrorChildren(e, children, i, p) ==
    IF i > Len(children) THEN [e |-> e, arr |-> p.arr]
    ELSE LET r == ValidationErrorAddError(e, children[i], p) IN
         AddErrorChildren(r.e, children, i + 1, [p EXCEPT !.arr = r.arr])

\* (*FieldError).Flatten
Flatten(e) ==
    [kind |-> "ValidationError",
     NestedErrors |-> AddErrorChildren(<<>>, e.FieldErrors, 1, NilSlice).e]

\* ------------------------------------------------------------ validators
Val(val, err) == [val |-> val, err |-> err]
GoString(s) == [k |-> "string", v |-> s]
GoInt64(n) == [k |-> "int64", n |-> n]
GoBool(b) == [k |-> "bool", b |-> b]

StringValidatorValidate(v, value) ==
    IF value.k # "string" THEN Val(JNull, NewValidationError("not a string"))
    ELSE IF Len(value.v) < v.MinLen
    THEN Val(GoString(""), NewValidationError(
             "too short, must be at least " \o ToString(v.MinLen) \o " characters"))
    ELSE IF Len(value.v) > v.MaxLen
    THEN Val(GoString(""), NewValidationError(
             "too long, may not be more than " \o ToString(v.MaxLen) \o " characters"))
    ELSE Val(GoString(value.v), NilErr)

BooleanValidatorValidate(v, value) ==
    IF value.k # "bool" THEN Val(JNull, NewValidationError("not a boolean"))
    ELSE Val(GoBool(value.b), NilErr)

IntegerValidatorValidate(v, value) ==
    IF value.k # "float64" \/ value.t % 10 # 0
    THEN Val(JNull, NewValidationError("not an integer"))
    ELSE LET i == value.t \div 10 IN
         IF i < v.MinVal
         THEN Val(JNull, NewValidationError(
                  "too small, must be at least " \o ToString(v.MinVal)))
         ELSE IF i > v.MaxVal
         THEN Val(JNull, NewValidationError(
                  "too large, may not be larger than " \o ToString(v.MaxVal)))
         ELSE Val(GoInt64(i), NilErr)

InterfaceValidatorValidate(v, value) == Val(value, NilErr)

RECURSIVE QuotedList(_)
QuotedList(ss) ==
    IF ss = <<>> THEN ""
    ELSE "\"" \o Head(ss) \o "\"" \o (IF Len(ss) > 1 THEN "," ELSE "") \o QuotedList(Tail(ss))

EnumeratedValuesValidatorValidate(v, value) ==
    IF value.k # "string" THEN Val(JNull, NewValidationError("not a string"))
    ELSE IF \A i \in DOMAIN v.AllowedSlice : v.AllowedSlice[i] # value.v
    THEN Val(JNull, NewValidationError(
             "Value must be one of: [" \o QuotedList(v.AllowedSlice) \o "]"))
    ELSE Val(value, NilErr)

brokenValidatorValidate(v, value) ==
    Val(JNull, errorsNew("this should be a ValidationError"))

String(minLen, maxLen) == [v |-> "String", MinLen |-> minLen, MaxLen |-> maxLen]
Integer(minVal, maxVal) == [v |-> "Integer", MinVal |-> minVal, MaxVal |-> maxVal]
Boolean == [v |-> "Boolean"]
Interface == [v |-> "Interface"]
OneOf(allowed) == [v |-> "OneOf", AllowedSlice |-> allowed]
brokenValidator == [v |-> "broken"]

\* Validator.Validate, dispatched on the validator's dynamic type
Validate(v, value) ==
    CASE v.v = "String" -> StringValidatorValidate(v, value)
      [] v.v = "Integer" -> IntegerValidatorValidate(v, value)
      [] v.v = "Boolean" -> BooleanValidatorValidate(v, value)
      [] v.v = "Interface" -> InterfaceValidatorValidate(v, value)
      [] v.v = "OneOf" -> EnumeratedValuesValidatorValidate(v, value)
      [] v.v = "broken" -> brokenValidatorValidate(v, value)

\* -------------------------------------------------------- Go types, values
TString == [k |-> "string"]
TInt64 == [k |-> "int64"]
TBool == [k |-> "bool"]
TIface == [k |-> "iface"]
TStruct(n) == [k |-> "struct", name |-> n]
TPtr(t) == [k |-> "ptr", to |-> t]
TSlice(t) == [k |-> "slice", of |-> t]
TMap(t) == [k |-> "map", of |-> t]

GoField(n, t) == [name |-> n, type |-> t]

\* the structure types of the model; those down to UnregisteredThing are the
\* test suite's, with AnInt an int64 (what Integer's Validate returns), the
\* others are further configurations of the same node kinds
StructDecl(n) ==
    CASE n = "InnerThing" ->
           << GoField("Foo", TString), GoField("AnInt", TInt64),
              GoField("ABool", TBool) >>
      [] n = "OuterThing" -> << GoField("InnerThing", TStruct("InnerThing")) >>
      [] n = "OuterPointerThing" ->
           << GoField("InnerThing", TPtr(TStruct("InnerThing"))) >>
      [] n = "OuterInterfaceThing" -> << GoField("InnerThing", TIface) >>
      [] n = "OuterSliceThing" ->
           << GoField("InnerThings", TSlice(TStruct("InnerThing"))) >>
      [] n = "OtherInnerThing" -> << GoField("Bar", TString) >>
      [] n = "OuterVariableThing" ->
           << GoField("InnerType", TString), GoField("InnerValue", TIface) >>
      [] n = "UnionFirstThing" ->
           << GoField("InnerType", TString), GoField("InnerValue", TIface) >>
      [] n = "ReadOnlyThing" -> << GoField("PrimaryKey", TString) >>
      [] n = "ThingWithSliceOfPrimitives" -> << GoField("Strings", TSlice(TString)) >>
      [] n = "ThingWithMapOfInterfaces" -> << GoField("Interfaces", TMap(TIface)) >>
      [] n = "UnregisteredThing" -> << >>
      [] n = "TypoedThing" -> << GoField("Correct", TBool) >>
      [] n = "BoundedThing" ->
           << GoField("AtMost", TSlice(TString)), GoField("AtLeast", TSlice(TString)) >>
      [] n = "RangedThing" ->
           << GoField("Between", TSlice(TString)), GoField("Exactly", TSlice(TString)) >>
      [] n = "TypoedRecordThing" -> << GoField("Name", TString), GoField("Note", TString) >>
      [] n = "TypoedReadOnlyThing" -> << GoField("PrimaryKey", TString) >>
      [] n = "BrokenThing" -> << GoField("Invalid", TString) >>
      [] n = "TemplatableThing" -> << GoField("SomeField", TString) >>
      [] n = "LabelledThing" -> << GoField("Label", TString), GoField("SomeField", TString) >>
      [] n = "OuterLabelledThing" ->
           << GoField("Things", TSlice(TStruct("LabelledThing"))) >>
      [] n = "ThingWithInterface" -> << GoField("Anything", TIface) >>
      [] n = "LooseThing" -> << GoField("Both", TString), GoField("Neither", TString) >>
      [] n = "ThingWithMapOfPrimitives" -> << GoField("Strings", TMap(TString)) >>
      [] n = "RecordThing" ->
           << GoField("PrimaryKey", TString), GoField("Name", TString),
              GoField("Note", TString),
              GoField("Thing", TPtr(TStruct("ReadOnlyThing"))) >>
      [] n = "DeepThing" ->
           << GoField("OuterSliceThings", TSlice(TStruct("OuterSliceThing"))) >>

FieldNames(n) == {StructDecl(n)[i].name : i \in DOMAIN StructDecl(n)}
FieldTypeOf(n, fname) ==
    StructDecl(n)[CHOOSE i \in DOMAIN StructDecl(n) : StructDecl(n)[i].name = fname].type

GoStruct(n, f) == [k |-> "struct", name |-> n, f |-> f]
GoPtr(t, e) == [k |-> "ptr", to |-> t, e |-> e]
GoIface(e) == [k |-> "iface", e |-> e]
GoSlice(t, isNil, v) == [k |-> "slice", of |-> t, nil |-> isNil, v |-> v]
GoMap(t, isNil, m) == [k |-> "map", of |-> t, nil |-> isNil, m |-> m]

\* reflect.Zero / reflect.New(t).Elem()
RECURSIVE Zero(_)
Zero(t) ==
    CASE t.k = "string" -> GoString("")
      [] t.k = "int64" -> GoInt64(0)
      [] t.k = "bool" -> GoBool(FALSE)
      [] t.k = "iface" -> GoIface(None)
      [] t.k = "ptr" -> GoPtr(t.to, None)
      [] t.k = "slice" -> GoSlice(t.of, TRUE, <<>>)
      [] t.k = "map" -> GoMap(t.of, TRUE, EmptyFn)
      [] t.k = "struct" ->
           GoStruct(t.name,
                    [fname \in FieldNames(t.name) |-> Zero(FieldTypeOf(t.name, fname))])

\* reflect.TypeOf of a value that is no nil interface
TypeOf(v) ==
    CASE v.k = "struct" -> TStruct(v.name)
      [] v.k = "ptr" -> TPtr(v.to)
      [] v.k = "slice" -> TSlice(v.of)
      [] v.k = "map" -> TMap(v.of)
      [] OTHER -> [k |-> v.k]

\* reflect.Value.Set(reflect.ValueOf(val)) on the slot now holding cur: [ok, v].
\* It panics when val is a nil interface (the zero reflect.Value) or when
\* val's type is not assignable to the slot's.
ReflectSet(cur, val) ==
    IF val.k = "nil" THEN [ok |-> FALSE, v |-> cur]
    ELSE IF cur.k = "iface" THEN [ok |-> TRUE, v |-> GoIface(Some(val))]
    ELSE IF TypeOf(val) = TypeOf(cur) THEN [ok |-> TRUE, v |-> val]
    ELSE [ok |-> FALSE, v |-> cur]

\* the zero reflect.Value, which holds nothing
Invalid == [k |-> "invalid"]

\* reflect.Value.Elem of a pointer: the zero Value when the pointer is nil
Elem(v) == IF IsNone(v.e) THEN Invalid ELSE Get(v.e)

\* reflect.Value.IsNil for the kinds that have one
IsNil(v) ==
    CASE v.k \in {"ptr", "iface"} -> IsNone(v.e)
      [] v.k \in {"slice", "map"} -> v.nil
      [] v.k = "nil" -> TRUE
      [] OTHER -> FALSE

\* ----------------------------------------------------------- json.Marshal
RawMessage(data) == [k |-> "RawMessage", Data |-> data]
nullJSONValue == << Tok("null") >>
nullRawMessage == RawMessage(nullJSONValue)

Ok(data) == [err |-> NilErr, data |-> data]
Fail(err) == [err |-> err, data |-> <<>>]

\* encoding/json's Marshal of a Go value: [err, data]
RECURSIVE jsonMarshal(_), jsonMarshalSeq(_), jsonMarshalMembers(_, _)
jsonMarshalSeq(vs) ==
    LET Cons(h, t) == IF h.err # NilErr THEN h
                      ELSE IF t.err # NilErr THEN t ELSE Ok(<<h.data>> \o t.data)
    IN IF vs = <<>> THEN Ok(<<>>)
       ELSE Cons(jsonMarshal(Head(vs)), jsonMarshalSeq(Tail(vs)))
\* members: a sequence of <<key, value>> pairs, in the order to write them
jsonMarshalMembers(ms, i) ==
    LET Cons(h, t) == IF h.err # NilErr THEN h
                      ELSE IF t.err # NilErr THEN t
                      ELSE Ok(<< <<TStr(ms[i][1]), Tok(":")>> \o h.data >> \o t.data)
    IN IF i > Len(ms) THEN Ok(<<>>)
       ELSE Cons(jsonMarshal(ms[i][2]), jsonMarshalMembers(ms, i + 1))
jsonArray(parts) == <<Tok("[")>> \o Join(parts, <<Tok(",")>>) \o <<Tok("]")>>
jsonObject(parts) == <<Tok("{")>> \o Join(parts, <<Tok(",")>>) \o <<Tok("}")>>
jsonMarshal(v) ==
    LET Array(r) == IF r.err # NilErr THEN r ELSE Ok(jsonArray(r.data))
        Object(r) == IF r.err # NilErr THEN r ELSE Ok(jsonObject(r.data))
        Members(names) == [i \in DOMAIN names |-> <<names[i], v.m[names[i]]>>]
        Fields(d) == [i \in DOMAIN d |-> <<d[i].name, v.f[d[i].name]>>]
    IN
    CASE v.k = "nil" -> Ok(nullJSONValue)
      [] v.k = "string" -> Ok(<<TStr(v.v)>>)
      [] v.k = "int64" -> Ok(<<TNum(10 * v.n)>>)
      [] v.k = "float64" -> Ok(<<TNum(v.t)>>)
      [] v.k = "bool" -> Ok(<<Tok(IF v.b THEN "true" ELSE "false")>>)
      [] v.k = "RawMessage" ->
           IF jsonValid(v.Data) THEN Ok(v.Data)
           ELSE Fail(errorsNew("json: error calling MarshalJSON"))
      [] v.k \in {"ptr", "iface"} ->
           IF IsNone(v.e) THEN Ok(nullJSONValue) ELSE jsonMarshal(Get(v.e))
      [] v.k \in {"list", "slice"} ->
           IF v.k = "slice" /\ v.nil THEN Ok(nullJSONValue)
           ELSE Array(jsonMarshalSeq(IF v.k = "list" THEN v.l ELSE v.v))
      [] v.k \in {"object", "map"} ->
           IF v.k = "map" /\ v.nil THEN Ok(nullJSONValue)
           ELSE Object(jsonMarshalMembers(Members(KeysOf(v.m)), 1))
      [] v.k = "struct" ->
           Object(jsonMarshalMembers(Fields(StructDecl(v.name)), 1))

\* ----------------------------------------------------------- TypeMap nodes
MappedField(structFieldName, jsonFieldName, contains, validator, optional, readOnly) ==
    [StructFieldName |-> structFieldName, JSONFieldName |-> jsonFieldName,
     Contains |-> contains, Validator |-> validator,
     Optional |-> optional, ReadOnly |-> readOnly]

StructMap(underlyingType, fields) ==
    [kind |-> "StructMap", UnderlyingType |-> underlyingType, Fields |-> fields]

SliceOf(elem) ==
    [kind |-> "SliceMap", Contains |-> elem, minLen |-> None, maxLen |-> None]

SliceOfMax(elem, max) ==
    [kind |-> "SliceMap", Contains |-> elem, minLen |-> None, maxLen |-> Some(max)]

SliceOfMin(elem, min) ==
    [kind |-> "SliceMap", Contains |-> elem, minLen |-> Some(min), maxLen |-> None]

SliceOfRange(elem, min, max) ==
    [kind |-> "SliceMap", Contains |-> elem, minLen |-> Some(min), maxLen |-> Some(max)]

VariableType(switchOnFieldName, types) ==
    [kind |-> "variableType", switchOnFieldName |-> switchOnFieldName, types |-> types]

PrimitiveMap(v) == [kind |-> "primitiveMap", validator |-> v]

\* a parsed template: its text and its actions in order. An action reads a
\* member of .Context or of .Parent, or .Value
Text(s) == [p |-> "text", f |-> s]
ContextField(f) == [p |-> "Context", f |-> f]
ParentField(f) == [p |-> "Parent", f |-> f]
TheValue == [p |-> "Value", f |-> ""]
StringRenderer(parts) == [kind |-> "stringRenderer", template |-> parts]

MapOf(elem) == [kind |-> "MapMap", Contains |-> elem]

\* ------------------------------------------------------------- the history
\* A call of a node's Unmarshal, and a field descriptor reaching the lookup of
\* its destination member, each at the path (field names and indices) from
\* the call that returned the history.
CallEvent(node, ctx, parent, partial, pre, r) ==
    [ev |-> "call", at |-> <<>>, node |-> node, ctx |-> ctx, parent |-> parent,
     partial |-> partial,
     pre |-> pre, post |-> r.dst, err |-> r.err, panic |-> r.panic]
FieldEvent(name) == [ev |-> "field", at |-> <<>>, name |-> name]
ValidateEvent(name, value) == [ev |-> "validate", at |-> <<name>>, value |-> value]
PrefixLog(seg, log) == [i \in DOMAIN log |-> [log[i] EXCEPT !.at = <<seg>> \o @]]

Ret(err, dst, log) == [err |-> err, dst |-> dst, panic |-> "", log |-> log]
Panic(msg, dst, log) == [err |-> NilErr, dst |-> dst, panic |-> msg, log |-> log]

\* a faulty index rendering: counts elements from one
ItoaOneBased(i) == ToString(i + 1)

\* strconv.Itoa
Itoa(i) == ToString(i)

\* error.Error() of an error that is no *FieldError
ErrorString(e) == e.Message

\* ------------------------------------------------------------- Unmarshal
\* a faulty range check: the upper bound is exclusive
validateSliceWithinRangeExclusive(sm, data) ==
    IF IsNone(sm.maxLen) /\ IsNone(sm.minLen) THEN NilErr
    ELSE IF ~IsNone(sm.maxLen) /\ Len(data) >= Get(sm.maxLen)
    THEN NewValidationError("must have at most " \o ToString(Get(sm.maxLen)) \o " elements")
    ELSE IF ~IsNone(sm.minLen) /\ Len(data) < Get(sm.minLen)
    THEN NewValidationError("must have at least " \o ToString(Get(sm.minLen)) \o " elements")
    ELSE NilErr

\* (*SliceMap).validateSliceWithinRange
validateSliceWithinRange(sm, data) ==
    IF IsNone(sm.maxLen) /\ IsNone(sm.minLen) THEN NilErr
    ELSE IF IsNone(sm.maxLen)
    THEN IF Len(data) < Get(sm.minLen)
         THEN NewValidationError(
                  "must have at least " \o ToString(Get(sm.minLen)) \o " elements")
         ELSE NilErr
    ELSE IF IsNone(sm.minLen)
    THEN IF Len(data) > Get(sm.maxLen)
         THEN NewValidationError(
                  "must have at most " \o ToString(Get(sm.maxLen)) \o " elements")
         ELSE NilErr
    ELSE IF Get(sm.maxLen) = Get(sm.minLen)
    THEN IF Len(data) # Get(sm.maxLen)
         THEN NewValidationError("must have " \o ToString(Get(sm.maxLen)) \o " elements")
         ELSE NilErr
    ELSE IF Len(data) > Get(sm.maxLen) \/ Len(data) < Get(sm.minLen)
    THEN NewValidationError(
             "must have between " \o ToString(Get(sm.minLen)) \o " and "
             \o ToString(Get(sm.maxLen)) \o " elements")
    ELSE NilErr

\* a faulty pick: a discriminator the table does not know falls back to one
\* of the table's nodes
pickTypeMapFallback(vt, parent) ==
    IF IsNone(parent) \/ Get(parent).k # "struct"
       \/ vt.switchOnFieldName \notin DOMAIN Get(parent).f
    THEN [panic |-> "no such underlying field: " \o vt.switchOnFieldName,
          err |-> NilErr, tm |-> None]
    ELSE IF Get(parent).f[vt.switchOnFieldName].k # "string"
    THEN [panic |-> "cannot convert underlying field to string", err |-> NilErr,
          tm |-> None]
    ELSE IF Get(parent).f[vt.switchOnFieldName].v \notin DOMAIN vt.types
    THEN [panic |-> "", err |-> NilErr,
          tm |-> Some(vt.types[CHOOSE key \in DOMAIN vt.types : TRUE])]
    ELSE [panic |-> "", err |-> NilErr,
          tm |-> Some(vt.types[Get(parent).f[vt.switchOnFieldName].v])]

\* (*variableType).pickTypeMap: [panic, err, tm]
pickTypeMap(vt, parent) ==
    IF IsNone(parent) \/ Get(parent).k # "struct"
       \/ vt.switchOnFieldName \notin DOMAIN Get(parent).f
    THEN [panic |-> "no such underlying field: " \o vt.switchOnFieldName,
          err |-> NilErr, tm |-> None]
    ELSE LET typeKey == Get(parent).f[vt.switchOnFieldName] IN
         IF typeKey.k # "string"
         THEN [panic |-> "cannot convert underlying field to string",
               err |-> NilErr, tm |-> None]
         ELSE IF typeKey.v \notin DOMAIN vt.types
         THEN [panic |-> "",
               err |-> NewValidationError(
                          "invalid type identifier: '" \o typeKey.v \o "'"),
               tm |-> None]
         ELSE [panic |-> "", err |-> NilErr, tm |-> Some(vt.types[typeKey.v])]

\* v.Set(reflect.ValueOf(val)) after a validator returned v: the slot is
\* written when the validator accepted
Assigned(v, dstValue, log) ==
    LET Set(s) == IF s.ok THEN Ret(NilErr, s.v, log)
                  ELSE Panic("reflect.Set: value is not assignable", dstValue, log)
    IN Set(ReflectSet(dstValue, v.val))

\* (*stringRenderer).Unmarshal
stringRendererUnmarshal(sr, ctx, parent, partial, dstValue) == Ret(NilErr, dstValue, <<>>)

\* (*primitiveMap).Unmarshal
primitiveMapUnmarshal(m, ctx, parent, partial, dstValue) ==
    LET log == <<[ev |-> "validate", at |-> <<>>, value |-> partial]>>
        Validated(v) == IF v.err # NilErr THEN Ret(v.err, dstValue, log)
                        ELSE IF v.val.k # "nil" THEN Assigned(v, dstValue, log)
                        ELSE Ret(NilErr, dstValue, log)
    IN Validated(Validate(m.validator, partial))

\* the order in which the runtime's range statement yields the keys of a map
\* during the call being made; Go leaves it unspecified
VARIABLE rangeOrder

RangeOrders == {"ascending", "descending"}

Reverse(s) == [i \in DOMAIN s |-> s[Len(s) + 1 - i]]

\* for key := range m
Range(m) == IF rangeOrder = "ascending" THEN KeysOf(m) ELSE Reverse(KeysOf(m))

\* reflect.Value.SetMapIndex
SetMapIndex(mapValue, key, elem) ==
    GoMap(mapValue.of, FALSE,
          [x \in DOMAIN mapValue.m \cup {key} |-> IF x = key THEN elem ELSE mapValue.m[x]])

\* errs.AddError(...) of the three loops: a *FieldError child keeps its subtree
\* and takes the name, any other error becomes a leaf with its text
AddChild(errs, err, name) ==
    IF err = NilErr THEN errs
    ELSE IF err.kind = "FieldError" THEN FieldErrorAddError(errs, SetField(err, name))
    ELSE FieldErrorAddError(errs, NewValidationErrorWithField(name, ErrorString(err)))

RECURSIVE TypeMapUnmarshal(_, _, _, _, _), StructMapUnmarshal(_, _, _, _, _),
          StructMapUnmarshalFields(_, _, _, _, _, _, _),
          SliceMapUnmarshal(_, _, _, _, _), SliceMapUnmarshalElems(_, _, _, _, _, _, _, _),
          variableTypeUnmarshal(_, _, _, _, _), MapMapUnmarshal(_, _, _, _, _),
          MapMapUnmarshalKeys(_, _, _, _, _, _, _)

\* the loop of StructMap.Unmarshal from field i on: inst is the structure
\* being filled, errs the accumulator
StructMapUnmarshalFields(sm, ctx, data, inst, i, errs, log) ==
    IF i > Len(sm.Fields) THEN [Ret(errs, inst, log) EXCEPT !.err = errs]
    ELSE LET field == sm.Fields[i]
             name == field.JSONFieldName
             log1 == Append(log, FieldEvent(name))
             Prefixed(c) == [c EXCEPT !.log = PrefixLog(name, @)]
             Validated(v, dstField) ==
                 IF v.err # NilErr
                 THEN Ret(v.err, dstField, <<ValidateEvent(name, data[name])>>)
                 ELSE Assigned(v, dstField, <<ValidateEvent(name, data[name])>>)
             \* the outcome r of the field's node or validator, then the
             \* next field
             Then(r) ==
                 IF r.panic # ""
                 THEN Panic(r.panic, [inst EXCEPT !.f[field.StructFieldName] = r.dst],
                            log1 \o r.log)
                 ELSE StructMapUnmarshalFields(sm, ctx, data,
                          [inst EXCEPT !.f[field.StructFieldName] = r.dst], i + 1,
                          AddChild(errs, r.err, name), log1 \o r.log)
         IN
         IF field.ReadOnly
         THEN StructMapUnmarshalFields(sm, ctx, data, inst, i + 1, errs, log)
         ELSE IF inst.k # "struct"
         THEN Panic("reflect: call of reflect.Value.FieldByName on "
                    \o (IF inst.k = "invalid" THEN "zero" ELSE inst.k) \o " Value",
                    inst, log1)
         ELSE IF field.StructFieldName \notin DOMAIN inst.f
         THEN Panic("no such underlying field: " \o field.StructFieldName, inst, log1)
         ELSE IF ~Has(data, name)
         THEN StructMapUnmarshalFields(sm, ctx, data, inst, i + 1,
                  IF field.Optional THEN errs
                  ELSE FieldErrorAddError(errs,
                           NewValidationErrorWithField(name, "missing required field")),
                  log1)
         ELSE IF data[name].k = "nil" /\ field.Optional
         THEN StructMapUnmarshalFields(sm, ctx, data, inst, i + 1, errs, log1)
         ELSE IF ~IsNone(field.Contains)
         THEN Then(Prefixed(TypeMapUnmarshal(Get(field.Contains), ctx, Some(inst),
                                             data[name], inst.f[field.StructFieldName])))
         ELSE IF ~IsNone(field.Validator)
         THEN Then(Validated(Validate(Get(field.Validator), data[name]),
                             inst.f[field.StructFieldName]))
         ELSE Panic("Field must have Contains or Validator: " \o name, inst, log1)

\* a StructMap.Unmarshal that gives the destination back as it found it when
\* a field failed
StructMapUnmarshalRolledBack(sm, ctx, parent, partial, dstValue) ==
    LET t == TStruct(sm.UnderlyingType)
        Stored(inst) == CASE dstValue.k = "iface" -> GoIface(Some(GoPtr(t, Some(inst))))
                          [] dstValue.k = "ptr" -> GoPtr(t, Some(inst))
                          [] OTHER -> inst
        Done(r) == IF r.panic # "" THEN Panic(r.panic, Stored(r.dst), r.log)
                   ELSE IF Len(r.err.FieldErrors) # 0 THEN Ret(r.err, dstValue, r.log)
                   ELSE Ret(NilErr, Stored(r.dst), r.log)
    IN
    IF partial.k = "nil" /\ dstValue.k \in {"iface", "ptr"}
    THEN Ret(NilErr, dstValue, <<>>)
    ELSE IF partial.k # "object"
    THEN Ret(NewValidationError("expected an object"), dstValue, <<>>)
    ELSE IF dstValue.k = "ptr" /\ dstValue.to # t
    THEN Panic("reflect.Set: value is not assignable", dstValue, <<>>)
    ELSE Done(StructMapUnmarshalFields(sm, ctx, partial.m,
                  IF dstValue.k \in {"iface", "ptr"} THEN Zero(t) ELSE dstValue,
                  1, NewValidationError(""), <<>>))

\* a StructMap.Unmarshal that refuses an object with a key none of its
\* descriptors names
StructMapUnmarshalKnownKeys(sm, ctx, parent, partial, dstValue) ==
    LET t == TStruct(sm.UnderlyingType)
        Stored(inst) == CASE dstValue.k = "iface" -> GoIface(Some(GoPtr(t, Some(inst))))
                          [] dstValue.k = "ptr" -> GoPtr(t, Some(inst))
                          [] OTHER -> inst
        Done(r) == IF r.panic # "" THEN Panic(r.panic, Stored(r.dst), r.log)
                   ELSE IF Len(r.err.FieldErrors) # 0 THEN Ret(r.err, Stored(r.dst), r.log)
                   ELSE Ret(NilErr, Stored(r.dst), r.log)
    IN
    IF partial.k = "nil" /\ dstValue.k \in {"iface", "ptr"}
    THEN Ret(NilErr, dstValue, <<>>)
    ELSE IF partial.k # "object"
    THEN Ret(NewValidationError("expected an object"), dstValue, <<>>)
    ELSE IF \E key \in DOMAIN partial.m :
               \A i \in DOMAIN sm.Fields : sm.Fields[i].JSONFieldName # key
    THEN Ret(NewValidationError("unknown field"), dstValue, <<>>)
    ELSE IF dstValue.k = "ptr" /\ dstValue.to # t
    THEN Panic("reflect.Set: value is not assignable", dstValue, <<>>)
    ELSE Done(StructMapUnmarshalFields(sm, ctx, partial.m,
                  IF dstValue.k \in {"iface", "ptr"} THEN Zero(t) ELSE dstValue,
                  1, NewValidationError(""), <<>>))

\* StructMap.Unmarshal
StructMapUnmarshal(sm, ctx, parent, partial, dstValue) ==
    LET t == TStruct(sm.UnderlyingType)
        \* dstValue.Set(reflect.New(t)), the new instance as the loop left it
        Stored(inst) == CASE dstValue.k = "iface" -> GoIface(Some(GoPtr(t, Some(inst))))
                          [] dstValue.k = "ptr" -> GoPtr(t, Some(inst))
                          [] OTHER -> inst
        Done(r) == IF r.panic # "" THEN Panic(r.panic, Stored(r.dst), r.log)
                   ELSE IF Len(r.err.FieldErrors) # 0 THEN Ret(r.err, Stored(r.dst), r.log)
                   ELSE Ret(NilErr, Stored(r.dst), r.log)
    IN
    IF partial.k = "nil" /\ dstValue.k \in {"iface", "ptr"}
    THEN Ret(NilErr, dstValue, <<>>)
    ELSE IF partial.k # "object"
    THEN Ret(NewValidationError("expected an object"), dstValue, <<>>)
    ELSE IF dstValue.k = "ptr" /\ dstValue.to # t
    THEN Panic("reflect.Set: value is not assignable", dstValue, <<>>)
    ELSE Done(StructMapUnmarshalFields(sm, ctx, partial.m,
                  \* an interface or pointer slot gets a new instance before
                  \* any field is looked at
                  IF dstValue.k \in {"iface", "ptr"} THEN Zero(t) ELSE dstValue,
                  1, NewValidationError(""), <<>>))

\* the loop of SliceMap.Unmarshal from element i on (i counts from 1, the
\* code's index is i - 1)
SliceMapUnmarshalElems(sm, ctx, data, dstValue, i, result, errs, log) ==
    LET Then(c) ==
            IF c.panic # "" THEN Panic(c.panic, result, log \o PrefixLog(Itoa(i - 1), c.log))
            ELSE SliceMapUnmarshalElems(sm, ctx, data, dstValue, i + 1,
                     \* reflect.Append
                     IF c.err # NilErr THEN result
                     ELSE GoSlice(result.of, FALSE, Append(result.v, c.dst)),
                     AddChild(errs, c.err, Itoa(i - 1)),
                     log \o PrefixLog(Itoa(i - 1), c.log))
    IN IF i > Len(data) THEN [Ret(errs, result, log) EXCEPT !.err = errs]
       ELSE Then(TypeMapUnmarshal(sm.Contains, ctx, Some(dstValue), data[i],
                                  Zero(dstValue.of)))

\* SliceMap.Unmarshal
SliceMapUnmarshal(sm, ctx, parent, partial, dstValue) ==
    LET Done(r) == IF r.panic # "" THEN Panic(r.panic, dstValue, r.log)
                   ELSE IF Len(r.err.FieldErrors) # 0 THEN Ret(r.err, dstValue, r.log)
                   ELSE Ret(NilErr, r.dst, r.log)
        \* result := dstValue
        Ranged(err) ==
            IF err # NilErr THEN Ret(err, dstValue, <<>>)
            ELSE IF dstValue.k # "slice"
            THEN Panic("reflect: Elem of invalid type", dstValue, <<>>)
            ELSE Done(SliceMapUnmarshalElems(sm, ctx, partial.l, dstValue, 1, dstValue,
                                             NewValidationError(""), <<>>))
    IN IF partial.k # "list" THEN Ret(NewValidationError("expected a list"), dstValue, <<>>)
       ELSE Ranged(validateSliceWithinRange(sm, partial.l))

\* (*variableType).Unmarshal
variableTypeUnmarshal(vt, ctx, parent, partial, dstValue) ==
    LET Picked(p) == IF p.panic # "" THEN Panic(p.panic, dstValue, <<>>)
                     ELSE IF p.err # NilErr THEN Ret(p.err, dstValue, <<>>)
                     ELSE TypeMapUnmarshal(Get(p.tm), ctx, parent, partial, dstValue)
    IN Picked(pickTypeMap(vt, parent))

\* the loop of MapMap.Unmarshal over the keys still to come, dstValue being
\* the new map as filled so far
MapMapUnmarshalKeys(mm, ctx, data, dstValue, keys, errs, log) ==
    LET Then(c) ==
            IF c.panic # ""
            THEN Panic(c.panic, dstValue, log \o PrefixLog(Head(keys), c.log))
            ELSE MapMapUnmarshalKeys(mm, ctx, data,
                     IF c.err # NilErr THEN dstValue
                     ELSE SetMapIndex(dstValue, Head(keys), c.dst),
                     Tail(keys), AddChild(errs, c.err, Head(keys)),
                     log \o PrefixLog(Head(keys), c.log))
    IN IF keys = <<>> THEN [Ret(errs, dstValue, log) EXCEPT !.err = errs]
       ELSE Then(TypeMapUnmarshal(mm.Contains, ctx, Some(dstValue), data[Head(keys)],
                                  Zero(dstValue.of)))

\* a faulty MapMap.Unmarshal: fills the map the destination holds instead of
\* a new one
MapMapUnmarshalKeepEntries(mm, ctx, parent, partial, dstValue) ==
    LET Done(r) == IF r.panic # "" THEN r
                   ELSE IF Len(r.err.FieldErrors) # 0 THEN Ret(r.err, r.dst, r.log)
                   ELSE Ret(NilErr, r.dst, r.log)
    IN IF partial.k # "object" THEN Ret(NewValidationError("expected a map"), dstValue, <<>>)
       ELSE IF dstValue.k # "map"
       THEN Panic("reflect.MakeMap of non-map type", dstValue, <<>>)
       ELSE Done(MapMapUnmarshalKeys(mm, ctx, partial.m,
                                     GoMap(dstValue.of, FALSE, dstValue.m), Range(partial.m),
                                     NewValidationError(""), <<>>))

\* MapMap.Unmarshal
MapMapUnmarshal(mm, ctx, parent, partial, dstValue) ==
    LET Done(r) == IF r.panic # "" THEN r
                   ELSE IF Len(r.err.FieldErrors) # 0 THEN Ret(r.err, r.dst, r.log)
                   ELSE Ret(NilErr, r.dst, r.log)
    IN IF partial.k # "object" THEN Ret(NewValidationError("expected a map"), dstValue, <<>>)
       ELSE IF dstValue.k # "map"
       THEN Panic("reflect.MakeMap of non-map type", dstValue, <<>>)
       \* dstValue.Set(reflect.MakeMap(dstValue.Type())) comes before the loop
       ELSE Done(MapMapUnmarshalKeys(mm, ctx, partial.m,
                                     GoMap(dstValue.of, FALSE, EmptyFn), Range(partial.m),
                                     NewValidationError(""), <<>>))

\* faulty dispatches: a struct node decoded as if none of its fields were
\* read-only, as if none were optional, and as if a null were an empty object
TypeMapUnmarshalNoReadOnly(node, ctx, parent, partial, dstValue) ==
    LET Logged(r) ==
            [r EXCEPT !.log = <<CallEvent(node, ctx, parent, partial,
                                          dstValue, r)>> \o @]
        Writable(sm) ==
            [sm EXCEPT !.Fields = [i \in DOMAIN @ |-> [@[i] EXCEPT !.ReadOnly = FALSE]]]
    IN Logged(CASE node.kind = "StructMap" ->
                     StructMapUnmarshal(Writable(node), ctx, parent, partial, dstValue)
                [] node.kind = "SliceMap" ->
                     SliceMapUnmarshal(node, ctx, parent, partial, dstValue)
                [] node.kind = "variableType" ->
                     variableTypeUnmarshal(node, ctx, parent, partial, dstValue)
                [] node.kind = "MapMap" ->
                     MapMapUnmarshal(node, ctx, parent, partial, dstValue)
                [] node.kind = "primitiveMap" ->
                     primitiveMapUnmarshal(node, ctx, parent, partial, dstValue)
                [] node.kind = "stringRenderer" ->
                     stringRendererUnmarshal(node, ctx, parent, partial, dstValue))

\* a faulty dispatch: a struct node whose descriptors with both a node and a
\* validator use the validator
TypeMapUnmarshalValidatorFirst(node, ctx, parent, partial, dstValue) ==
    LET Logged(r) ==
            [r EXCEPT !.log = <<CallEvent(node, ctx, parent, partial,
                                          dstValue, r)>> \o @]
        Preferred(sm) ==
            [sm EXCEPT !.Fields =
                [i \in DOMAIN @ |-> IF IsNone(@[i].Validator) THEN @[i]
                                    ELSE [@[i] EXCEPT !.Contains = None]]]
    IN Logged(CASE node.kind = "StructMap" ->
                     StructMapUnmarshal(Preferred(node), ctx, parent, partial, dstValue)
                [] node.kind = "SliceMap" ->
                     SliceMapUnmarshal(node, ctx, parent, partial, dstValue)
                [] node.kind = "variableType" ->
                     variableTypeUnmarshal(node, ctx, parent, partial, dstValue)
                [] node.kind = "MapMap" ->
                     MapMapUnmarshal(node, ctx, parent, partial, dstValue)
                [] node.kind = "primitiveMap" ->
                     primitiveMapUnmarshal(node, ctx, parent, partial, dstValue)
                [] node.kind = "stringRenderer" ->
                     stringRendererUnmarshal(node, ctx, parent, partial, dstValue))

\* a faulty dispatch: a struct node that decodes its fields last to first
TypeMapUnmarshalLastFirst(node, ctx, parent, partial, dstValue) ==
    LET Logged(r) ==
            [r EXCEPT !.log = <<CallEvent(node, ctx, parent, partial,
                                          dstValue, r)>> \o @]
        Reversed(sm) == [sm EXCEPT !.Fields = Reverse(@)]
    IN Logged(CASE node.kind = "StructMap" ->
                     StructMapUnmarshal(Reversed(node), ctx, parent, partial, dstValue)
                [] node.kind = "SliceMap" ->
                     SliceMapUnmarshal(node, ctx, parent, partial, dstValue)
                [] node.kind = "variableType" ->
                     variableTypeUnmarshal(node, ctx, parent, partial, dstValue)
                [] node.kind = "MapMap" ->
                     MapMapUnmarshal(node, ctx, parent, partial, dstValue)
                [] node.kind = "primitiveMap" ->
                     primitiveMapUnmarshal(node, ctx, parent, partial, dstValue)
                [] node.kind = "stringRenderer" ->
                     stringRendererUnmarshal(node, ctx, parent, partial, dstValue))

\* a faulty dispatch: a struct node that passes over the descriptors whose
\* member the structure does not have
TypeMapUnmarshalKnownMembers(node, ctx, parent, partial, dstValue) ==
    LET Logged(r) ==
            [r EXCEPT !.log = <<CallEvent(node, ctx, parent, partial,
                                          dstValue, r)>> \o @]
        Known(sm) ==
            [sm EXCEPT !.Fields =
                SelectSeq(@, LAMBDA f : f.StructFieldName \in FieldNames(sm.UnderlyingType))]
    IN Logged(CASE node.kind = "StructMap" ->
                     StructMapUnmarshal(Known(node), ctx, parent, partial, dstValue)
                [] node.kind = "SliceMap" ->
                     SliceMapUnmarshal(node, ctx, parent, partial, dstValue)
                [] node.kind = "variableType" ->
                     variableTypeUnmarshal(node, ctx, parent, partial, dstValue)
                [] node.kind = "MapMap" ->
                     MapMapUnmarshal(node, ctx, parent, partial, dstValue)
                [] node.kind = "primitiveMap" ->
                     primitiveMapUnmarshal(node, ctx, parent, partial, dstValue)
                [] node.kind = "stringRenderer" ->
                     stringRendererUnmarshal(node, ctx, parent, partial, dstValue))

TypeMapUnmarshalNoOptional(node, ctx, parent, partial, dstValue) ==
    LET Logged(r) ==
            [r EXCEPT !.log = <<CallEvent(node, ctx, parent, partial,
                                          dstValue, r)>> \o @]
        Required(sm) ==
            [sm EXCEPT !.Fields = [i \in DOMAIN @ |-> [@[i] EXCEPT !.Optional = FALSE]]]
    IN Logged(CASE node.kind = "StructMap" ->
                     StructMapUnmarshal(Required(node), ctx, parent, partial, dstValue)
                [] node.kind = "SliceMap" ->
                     SliceMapUnmarshal(node, ctx, parent, partial, dstValue)
                [] node.kind = "variableType" ->
                     variableTypeUnmarshal(node, ctx, parent, partial, dstValue)
                [] node.kind = "MapMap" ->
                     MapMapUnmarshal(node, ctx, parent, partial, dstValue)
                [] node.kind = "primitiveMap" ->
                     primitiveMapUnmarshal(node, ctx, parent, partial, dstValue)
                [] node.kind = "stringRenderer" ->
                     stringRendererUnmarshal(node, ctx, parent, partial, dstValue))

TypeMapUnmarshalNullAsObject(node, ctx, parent, partial, dstValue) ==
    LET Logged(r) ==
            [r EXCEPT !.log = <<CallEvent(node, ctx, parent, partial,
                                          dstValue, r)>> \o @]
    IN Logged(CASE node.kind = "StructMap" ->
                     StructMapUnmarshal(node, ctx, parent,
                         IF partial.k = "nil" THEN JObj(EmptyFn) ELSE partial, dstValue)
                [] node.kind = "SliceMap" ->
                     SliceMapUnmarshal(node, ctx, parent, partial, dstValue)
                [] node.kind = "variableType" ->
                     variableTypeUnmarshal(node, ctx, parent, partial, dstValue)
                [] node.kind = "MapMap" ->
                     MapMapUnmarshal(node, ctx, parent, partial, dstValue)
                [] node.kind = "primitiveMap" ->
                     primitiveMapUnmarshal(node, ctx, parent, partial, dstValue)
                [] node.kind = "stringRenderer" ->
                     stringRendererUnmarshal(node, ctx, parent, partial, dstValue))

\* TypeMap.Unmarshal, dispatched on the node's dynamic type
TypeMapUnmarshal(node, ctx, parent, partial, dstValue) ==
    LET Logged(r) ==
            [r EXCEPT !.log = <<CallEvent(node, ctx, parent, partial,
                                          dstValue, r)>> \o @]
    IN Logged(CASE node.kind = "StructMap" ->
                     StructMapUnmarshal(node, ctx, parent, partial, dstValue)
                [] node.kind = "SliceMap" ->
                     SliceMapUnmarshal(node, ctx, parent, partial, dstValue)
                [] node.kind = "variableType" ->
                     variableTypeUnmarshal(node, ctx, parent, partial, dstValue)
                [] node.kind = "MapMap" ->
                     MapMapUnmarshal(node, ctx, parent, partial, dstValue)
                [] node.kind = "primitiveMap" ->
                     primitiveMapUnmarshal(node, ctx, parent, partial, dstValue)
                [] node.kind = "stringRenderer" ->
                     stringRendererUnmarshal(node, ctx, parent, partial, dstValue))

\* --------------------------------------------------------------- Marshal
MRet(err, data) == [err |-> err, data |-> data, panic |-> ""]
MPanic(msg) == [err |-> NilErr, data |-> <<>>, panic |-> msg]

\* (*passthroughMarshaler).Marshal
passthroughMarshalerMarshal(m, ctx, parent, field) ==
    LET Encoded(r) == IF r.err # NilErr THEN MRet(r.err, <<>>) ELSE MRet(NilErr, r.data)
    IN Encoded(jsonMarshal(field))

\* RenderInfo
RenderInfo(ctx, parent, value) == [Context |-> ctx, Parent |-> parent, Value |-> value]

\* how a template prints a value
Printed(v) ==
    CASE v.k = "string" -> v.v
      [] v.k = "int64" -> ToString(v.n)
      [] v.k = "bool" -> IF v.b THEN "true" ELSE "false"
      [] OTHER -> "<no value>"

Rendering(err, text) == [err |-> err, text |-> text]

\* one part of a template, evaluated on the RenderInfo
Evaluate(part, info) ==
    IF part.p = "text" THEN Rendering(NilErr, part.f)
    ELSE IF part.p = "Value" THEN Rendering(NilErr, Printed(info.Value))
    ELSE IF info[part.p].k = "nil"
    THEN Rendering(errorsNew("template: nil pointer evaluating interface {}." \o part.f), "")
    ELSE IF info[part.p].k # "struct"
    THEN Rendering(errorsNew("template: can't evaluate field " \o part.f), "")
    ELSE IF part.f \notin DOMAIN info[part.p].f
    THEN Rendering(errorsNew("template: can't evaluate field " \o part.f), "")
    ELSE Rendering(NilErr, Printed(info[part.p].f[part.f]))

\* (*template.Template).Execute from part i on
RECURSIVE Execute(_, _, _)
Execute(template, i, info) ==
    IF i > Len(template) THEN Rendering(NilErr, "")
    ELSE LET Then(h) ==
                 IF h.err # NilErr THEN h
                 ELSE LET After(rest) == IF rest.err # NilErr THEN rest
                                         ELSE Rendering(NilErr, h.text \o rest.text)
                      IN After(Execute(template, i + 1, info))
         IN Then(Evaluate(template[i], info))

\* (*stringRenderer).Marshal
stringRendererMarshal(sr, ctx, parent, src) ==
    IF IsNone(parent)
    THEN MPanic("runtime error: invalid memory address or nil pointer dereference")
    ELSE LET Marshalled(j) == MRet(j.err, j.data)
             Executed(r) == IF r.err # NilErr THEN MRet(r.err, <<>>)
                            ELSE Marshalled(jsonMarshal(GoString(r.text)))
         IN Executed(Execute(sr.template, 1, RenderInfo(ctx, Get(parent), src)))

RECURSIVE TypeMapMarshal(_, _, _, _), StructMapMarshal(_, _, _, _),
          StructMapMarshalFields(_, _, _, _, _), SliceMapMarshal(_, _, _, _),
          SliceMapMarshalElems(_, _, _, _, _), variableTypeMarshal(_, _, _, _),
          MapMapMarshal(_, _, _, _), MapMapMarshalKeys(_, _, _, _, _)

\* a faulty marshalField: gives the field's node the empty context
marshalFieldEmptyContext(sm, ctx, parent, field, srcField) ==
    LET Encoded(j) == MRet(j.err, j.data)
        Contained(r) == IF r.panic # "" \/ r.err # NilErr THEN r
                        ELSE Encoded(jsonMarshal(RawMessage(r.data)))
    IN IF ~IsNone(field.Contains)
       THEN Contained(TypeMapMarshal(Get(field.Contains), JNull, Some(parent), srcField))
       ELSE Encoded(jsonMarshal(srcField))

\* StructMap.marshalField
marshalField(sm, ctx, parent, field, srcField) ==
    LET Encoded(j) == MRet(j.err, j.data)
        Contained(r) == IF r.panic # "" \/ r.err # NilErr THEN r
                        ELSE Encoded(jsonMarshal(RawMessage(r.data)))
    IN IF ~IsNone(field.Contains)
       THEN Contained(TypeMapMarshal(Get(field.Contains), ctx, Some(parent), srcField))
       ELSE Encoded(jsonMarshal(srcField))

\* the loop of StructMap.Marshal from field i on, buf the buffer so far
StructMapMarshalFields(sm, ctx, src, i, buf) ==
    IF i > Len(sm.Fields) THEN MRet(NilErr, buf)
    ELSE LET field == sm.Fields[i] IN
         IF field.StructFieldName = ""
         THEN MPanic("either StructFieldName or StructGetterName must be specified")
         ELSE IF field.StructFieldName \notin DOMAIN src.f
         THEN MPanic("no such underlying field: " \o field.StructFieldName)
         ELSE LET Written(keybuf, valbuf) ==
                      IF valbuf.panic # "" \/ valbuf.err # NilErr THEN valbuf
                      ELSE StructMapMarshalFields(sm, ctx, src, i + 1,
                               buf \o keybuf.data \o <<Tok(":")>> \o valbuf.data
                                   \o (IF i # Len(sm.Fields) THEN <<Tok(",")>> ELSE <<>>))
              IN Written(jsonMarshal(GoString(field.JSONFieldName)),
                         marshalField(sm, ctx, src, field, src.f[field.StructFieldName]))

\* StructMap.Marshal
StructMapMarshal(sm, ctx, parent, src) ==
    LET nil1 == IF src.k = "iface" THEN IsNone(src.e) ELSE FALSE
        src1 == IF src.k = "iface" /\ ~IsNone(src.e) THEN Get(src.e) ELSE src
        isNil == IF src1.k = "ptr" THEN IsNone(src1.e) ELSE nil1
        src2 == IF src1.k = "ptr" /\ ~IsNone(src1.e) THEN Get(src1.e) ELSE src1
    IN IF isNil THEN MRet(NilErr, nullJSONValue)
       ELSE IF TypeOf(src2) # TStruct(sm.UnderlyingType) THEN MPanic("wrong type")
       ELSE LET Closed(r) == IF r.panic # "" \/ r.err # NilErr THEN r
                             ELSE MRet(NilErr, r.data \o <<Tok("}")>>)
            IN Closed(StructMapMarshalFields(sm, ctx, src2, 1, <<Tok("{")>>))

\* the loop of SliceMap.Marshal from element i on (i counts from 1)
SliceMapMarshalElems(sm, ctx, src, i, result) ==
    IF i > Len(src.v) THEN MRet(NilErr, result)
    ELSE LET Appended(r) ==
                 IF r.panic # "" \/ r.err # NilErr THEN r
                 ELSE SliceMapMarshalElems(sm, ctx, src, i + 1,
                                           Append(result, RawMessage(r.data)))
         IN Appended(TypeMapMarshal(sm.Contains, ctx, Some(src), src.v[i]))

\* a faulty Marshal: writes a nil slice as an empty array
SliceMapMarshalNilAsEmpty(sm, ctx, parent, src) ==
    LET src1 == IF src.k = "ptr" /\ ~IsNone(src.e) THEN Get(src.e) ELSE src IN
    IF src1.k # "slice" THEN MPanic("reflect: call of reflect.Value.IsNil")
    ELSE IF src1.nil THEN MRet(NilErr, jsonMarshal(JList(<<>>)).data)
    ELSE LET Encoded(j) == MRet(j.err, j.data)
             Listed(r) == IF r.panic # "" \/ r.err # NilErr THEN r
                          ELSE Encoded(jsonMarshal(JList(r.data)))
         IN Listed(SliceMapMarshalElems(sm, ctx, src1, 1, <<>>))

\* SliceMap.Marshal
SliceMapMarshal(sm, ctx, parent, src) ==
    LET src1 == IF src.k = "ptr" /\ ~IsNone(src.e) THEN Get(src.e) ELSE src IN
    IF src1.k # "slice" THEN MPanic("reflect: call of reflect.Value.IsNil")
    ELSE IF src1.nil THEN MRet(NilErr, nullRawMessage.Data)
    ELSE LET Encoded(j) == MRet(j.err, j.data)
             Listed(r) == IF r.panic # "" \/ r.err # NilErr THEN r
                          ELSE Encoded(jsonMarshal(JList(r.data)))
         IN Listed(SliceMapMarshalElems(sm, ctx, src1, 1, <<>>))

\* the loop of MapMap.Marshal over the keys still to come
MapMapMarshalKeys(mm, ctx, src, keys, result) ==
    IF keys = <<>> THEN MRet(NilErr, result)
    ELSE LET Stored(r) ==
                 IF r.panic # "" \/ r.err # NilErr THEN r
                 ELSE MapMapMarshalKeys(mm, ctx, src, Tail(keys),
                          [x \in DOMAIN result \cup {Head(keys)} |->
                             IF x = Head(keys) THEN RawMessage(r.data) ELSE result[x]])
         IN Stored(TypeMapMarshal(mm.Contains, ctx, Some(src), src.m[Head(keys)]))

\* MapMap.Marshal; the keys of the model's maps are strings
MapMapMarshal(mm, ctx, parent, src) ==
    LET src1 == IF src.k = "ptr" /\ ~IsNone(src.e) THEN Get(src.e) ELSE src IN
    IF src1.k # "map" THEN MPanic("reflect: call of reflect.Value.IsNil")
    ELSE IF src1.nil THEN MRet(NilErr, nullRawMessage.Data)
    ELSE LET Encoded(j) == MRet(j.err, j.data)
             Listed(r) == IF r.panic # "" \/ r.err # NilErr THEN r
                          ELSE Encoded(jsonMarshal(JObj(r.data)))
         IN Listed(MapMapMarshalKeys(mm, ctx, src1, Range(src1.m), EmptyFn))

\* a faulty Marshal: resolves the variant before it looks at the value
variableTypeMarshalPickFirst(vt, ctx, parent, src) ==
    LET Picked(p) ==
            IF p.panic # "" THEN MPanic(p.panic)
            ELSE IF p.err # NilErr
            THEN MPanic("variable type serialization error: " \o p.err.Message)
            ELSE IF IsNil(src) THEN MRet(NilErr, nullRawMessage.Data)
            ELSE TypeMapMarshal(Get(p.tm), ctx, parent, src)
    IN Picked(pickTypeMap(vt, parent))

\* (*variableType).Marshal
variableTypeMarshal(vt, ctx, parent, src) ==
    IF src.k \notin {"ptr", "iface", "slice", "map"}
    THEN MPanic("reflect: call of reflect.Value.IsNil")
    ELSE IF IsNil(src) THEN MRet(NilErr, nullRawMessage.Data)
    ELSE LET Picked(p) ==
                 IF p.panic # "" THEN MPanic(p.panic)
                 ELSE IF p.err # NilErr
                 THEN MPanic("variable type serialization error: " \o p.err.Message)
                 ELSE TypeMapMarshal(Get(p.tm), ctx, parent, src)
         IN Picked(pickTypeMap(vt, parent))

\* a faulty dispatch: a struct node encoded with its fields taken in the
\* byte order of their names, as encoding/json writes a map
TypeMapMarshalKeyOrder(node, ctx, parent, src) ==
    LET Names(sm) == KeysOf([n \in {sm.Fields[i].JSONFieldName : i \in DOMAIN sm.Fields}
                                |-> JNull])
        Sorted(sm) ==
            [sm EXCEPT !.Fields =
                [i \in DOMAIN @ |->
                    @[CHOOSE j \in DOMAIN @ : @[j].JSONFieldName = Names(sm)[i]]]]
    IN CASE node.kind = "StructMap" -> StructMapMarshal(Sorted(node), ctx, parent, src)
         [] node.kind = "SliceMap" -> SliceMapMarshal(node, ctx, parent, src)
         [] node.kind = "variableType" -> variableTypeMarshal(node, ctx, parent, src)
         [] node.kind = "MapMap" -> MapMapMarshal(node, ctx, parent, src)
         [] node.kind = "primitiveMap" ->
              passthroughMarshalerMarshal(node, ctx, parent, src)
         [] node.kind = "stringRenderer" -> stringRendererMarshal(node, ctx, parent, src)

\* TypeMap.Marshal, dispatched on the node's dynamic type
TypeMapMarshal(node, ctx, parent, src) ==
    CASE node.kind = "StructMap" -> StructMapMarshal(node, ctx, parent, src)
      [] node.kind = "SliceMap" -> SliceMapMarshal(node, ctx, parent, src)
      [] node.kind = "variableType" -> variableTypeMarshal(node, ctx, parent, src)
      [] node.kind = "MapMap" -> MapMapMarshal(node, ctx, parent, src)
      [] node.kind = "primitiveMap" -> passthroughMarshalerMarshal(node, ctx, parent, src)
      [] node.kind = "stringRenderer" -> stringRendererMarshal(node, ctx, parent, src)

\* ------------------------------------------------- the configured mapping
InnerThingTypeMap ==
    StructMap("InnerThing",
        << MappedField("Foo", "foo", None, Some(String(1, 12)), TRUE, FALSE),
           MappedField("AnInt", "an_int", None, Some(Integer(0, 10)), TRUE, FALSE),
           MappedField("ABool", "a_bool", None, Some(Boolean), TRUE, FALSE) >>)

OuterThingTypeMap ==
    StructMap("OuterThing",
        << MappedField("InnerThing", "inner_thing", Some(InnerThingTypeMap), None,
                       FALSE, FALSE) >>)

OuterPointerThingTypeMap ==
    StructMap("OuterPointerThing",
        << MappedField("InnerThing", "inner_thing", Some(InnerThingTypeMap), None,
                       FALSE, FALSE) >>)

OuterInterfaceThingTypeMap ==
    StructMap("OuterInterfaceThing",
        << MappedField("InnerThing", "inner_thing", Some(InnerThingTypeMap), None,
                       FALSE, FALSE) >>)

OuterSliceThingTypeMap ==
    StructMap("OuterSliceThing",
        << MappedField("InnerThings", "inner_things", Some(SliceOf(InnerThingTypeMap)),
                       None, FALSE, FALSE) >>)

OtherInnerThingTypeMap ==
    StructMap("OtherInnerThing",
        << MappedField("Bar", "bar", None, Some(String(1, 155)), TRUE, FALSE) >>)

OuterVariableThingTypeMap ==
    StructMap("OuterVariableThing",
        << MappedField("InnerType", "inner_type", None, Some(String(1, 255)),
                       FALSE, FALSE),
           MappedField("InnerValue", "inner_thing",
                       Some(VariableType("InnerType",
                                         [foo |-> InnerThingTypeMap,
                                          bar |-> OtherInnerThingTypeMap])),
                       None, FALSE, FALSE) >>)

\* OuterVariableThing's map with the union declared before its discriminator
UnionFirstThingTypeMap ==
    StructMap("UnionFirstThing",
        << MappedField("InnerValue", "inner_thing",
                       Some(VariableType("InnerType",
                                         [foo |-> InnerThingTypeMap,
                                          bar |-> OtherInnerThingTypeMap])),
                       None, FALSE, FALSE),
           MappedField("InnerType", "inner_type", None, Some(String(1, 255)),
                       FALSE, FALSE) >>)

ReadOnlyThingTypeMap ==
    StructMap("ReadOnlyThing",
        << MappedField("PrimaryKey", "primary_key", None, None, FALSE, TRUE) >>)

ThingWithSliceOfPrimitivesTypeMap ==
    StructMap("ThingWithSliceOfPrimitives",
        << MappedField("Strings", "strings", Some(SliceOf(PrimitiveMap(String(1, 16)))),
                       None, FALSE, FALSE) >>)

ThingWithMapOfInterfacesTypeMap ==
    StructMap("ThingWithMapOfInterfaces",
        << MappedField("Interfaces", "interfaces", Some(MapOf(PrimitiveMap(Interface))),
                       None, FALSE, FALSE) >>)

\* a descriptor that names a member the structure does not have
TypoedThingTypeMap ==
    StructMap("TypoedThing",
        << MappedField("Incorrect", "correct", None, Some(Boolean), FALSE, FALSE) >>)

\* a descriptor that names a member the structure does not have, between two
\* that do
TypoedRecordThingTypeMap ==
    StructMap("TypoedRecordThing",
        << MappedField("Name", "name", None, Some(String(1, 12)), FALSE, FALSE),
           MappedField("Incorrect", "correct", None, Some(Boolean), TRUE, FALSE),
           MappedField("Note", "note", None, Some(String(1, 12)), FALSE, FALSE) >>)

\* StringRenderer("{{.Context.Foo}}:{{.Value}}")
TemplatableThingTypeMap ==
    StructMap("TemplatableThing",
        << MappedField("SomeField", "some_field",
                       Some(StringRenderer(<< ContextField("Foo"), Text(":"), TheValue >>)),
                       None, FALSE, FALSE) >>)

\* StringRenderer("{{.Context.Foo}}:{{.Parent.Label}}:{{.Value}}")
LabelledThingTypeMap ==
    StructMap("LabelledThing",
        << MappedField("Label", "label", None, Some(String(1, 12)), FALSE, FALSE),
           MappedField("SomeField", "some_field",
                       Some(StringRenderer(<< ContextField("Foo"), Text(":"),
                                              ParentField("Label"), Text(":"), TheValue >>)),
                       None, FALSE, FALSE) >>)

\* rendered fields two nodes below the top
OuterLabelledThingTypeMap ==
    StructMap("OuterLabelledThing",
        << MappedField("Things", "things", Some(SliceOf(LabelledThingTypeMap)), None,
                       FALSE, FALSE) >>)

BrokenThingTypeMap ==
    StructMap("BrokenThing",
        << MappedField("Invalid", "invalid", None, Some(brokenValidator), FALSE, FALSE) >>)

\* a read-only descriptor that names a member the structure does not have
TypoedReadOnlyThingTypeMap ==
    StructMap("TypoedReadOnlyThing",
        << MappedField("PrimaryKee", "primary_key", None, None, FALSE, TRUE) >>)

\* slices with an upper bound, a lower bound, both, and both the same
BoundedThingTypeMap ==
    StructMap("BoundedThing",
        << MappedField("AtMost", "at_most",
                       Some(SliceOfMax(PrimitiveMap(String(1, 16)), 1)), None, TRUE, FALSE),
           MappedField("AtLeast", "at_least",
                       Some(SliceOfMin(PrimitiveMap(String(1, 16)), 2)), None, TRUE, FALSE) >>)

RangedThingTypeMap ==
    StructMap("RangedThing",
        << MappedField("Between", "between",
                       Some(SliceOfRange(PrimitiveMap(String(1, 16)), 1, 2)), None,
                       TRUE, FALSE),
           MappedField("Exactly", "exactly",
                       Some(SliceOfRange(PrimitiveMap(String(1, 16)), 2, 2)), None,
                       TRUE, FALSE) >>)

\* a required member of interface type that takes any value
ThingWithInterfaceTypeMap ==
    StructMap("ThingWithInterface",
        << MappedField("Anything", "anything", None, Some(Interface), FALSE, FALSE) >>)

\* a descriptor with both Contains and Validator set, and a required one
\* with neither
LooseThingTypeMap ==
    StructMap("LooseThing",
        << MappedField("Both", "both", Some(PrimitiveMap(String(1, 12))),
                       Some(Integer(0, 10)), TRUE, FALSE),
           MappedField("Neither", "neither", None, None, FALSE, FALSE) >>)

\* a map whose element node can reject a value
ThingWithMapOfPrimitivesTypeMap ==
    StructMap("ThingWithMapOfPrimitives",
        << MappedField("Strings", "strings", Some(MapOf(PrimitiveMap(String(1, 16)))),
                       None, FALSE, FALSE) >>)

\* a structure with a read-only, a required and an optional scalar and an
\* optional pointer to a structure that has a read-only member
RecordThingTypeMap ==
    StructMap("RecordThing",
        << MappedField("PrimaryKey", "primary_key", None, Some(String(1, 12)),
                       FALSE, TRUE),
           MappedField("Name", "name", None, Some(String(1, 12)), FALSE, FALSE),
           MappedField("Note", "note", None, Some(String(1, 12)), TRUE, FALSE),
           MappedField("Thing", "thing", Some(ReadOnlyThingTypeMap), None,
                       TRUE, FALSE) >>)

\* a slice of structures that hold a slice of structures: four levels of
\* nodes between the root and a scalar
DeepThingTypeMap ==
    StructMap("DeepThing",
        << MappedField("OuterSliceThings", "things", Some(SliceOf(OuterSliceThingTypeMap)),
                       None, FALSE, FALSE) >>)

\* ------------------------------------------------------------ TypeMapper
\* NewTypeMapper(...): the registry, keyed by the underlying type
TestTypeMapper ==
    LET maps == << InnerThingTypeMap, OuterThingTypeMap, OuterPointerThingTypeMap,
                   OuterInterfaceThingTypeMap, OuterSliceThingTypeMap,
                   OuterVariableThingTypeMap, ReadOnlyThingTypeMap,
                   ThingWithSliceOfPrimitivesTypeMap, ThingWithMapOfInterfacesTypeMap,
                   ThingWithMapOfPrimitivesTypeMap, RecordThingTypeMap,
                   DeepThingTypeMap, TypoedThingTypeMap, ThingWithInterfaceTypeMap,
                   LooseThingTypeMap, TypoedRecordThingTypeMap,
                   TypoedReadOnlyThingTypeMap, BoundedThingTypeMap, RangedThingTypeMap,
                   BrokenThingTypeMap, TemplatableThingTypeMap, LabelledThingTypeMap,
                   OuterLabelledThingTypeMap, UnionFirstThingTypeMap >>
    IN [n \in {maps[i].UnderlyingType : i \in DOMAIN maps} |->
          maps[CHOOSE i \in DOMAIN maps : maps[i].UnderlyingType = n]]

\* (*TypeMapper).getTypeMap: [panic, m]
getTypeMap(tm, obj) ==
    LET t0 == TypeOf(obj)
        isSlice == t0.k = "slice"
        t1 == IF isSlice THEN t0.of ELSE t0
        t == IF t1.k = "ptr" THEN t1.to ELSE t1
    IN IF t.k # "struct" \/ t.name \notin DOMAIN tm
       THEN [panic |-> "no TypeMap registered for type", m |-> None]
       ELSE [panic |-> "", m |-> Some(IF isSlice THEN SliceOf(tm[t.name]) ELSE tm[t.name])]

\* a faulty Unmarshal: parses the bytes before it consults the registry
TypeMapperUnmarshalParseFirst(tm, ctx, data, dest) ==
    IF dest.k = "nil"
    THEN Panic("runtime error: invalid memory address or nil pointer dereference",
               dest, <<>>)
    ELSE IF dest.k # "ptr"
    THEN Panic("cannot unmarshal to non-pointer", dest, <<>>)
    ELSE LET Flattened(r) ==
                 IF r.panic = "" /\ r.err # NilErr /\ r.err.kind = "FieldError"
                 THEN [r EXCEPT !.err = Flatten(@)]
                 ELSE r
             Decoded(g, j) ==
                 IF j.err = "SyntaxError"
                 THEN Ret(NewValidationError("invalid character"), Elem(dest), <<>>)
                 ELSE IF j.err = "UnmarshalTypeError"
                 THEN Ret(NewValidationError("json: cannot unmarshal, not an object"),
                          Elem(dest), <<>>)
                 ELSE IF g.panic # "" THEN Panic(g.panic, Elem(dest), <<>>)
                 ELSE Flattened(TypeMapUnmarshal(Get(g.m), ctx, None, j.v, Elem(dest)))
         IN Decoded(getTypeMap(tm, dest), jsonUnmarshal(data))

\* (*TypeMapper).Unmarshal; dest is what the caller passes (a nil interface
\* is JNull), dst of the result the value dest points to when the call ends.
\* reflect.TypeOf(nil) is a nil Type, whose Kind() is a nil dereference; a nil
\* pointer of some type is a pointer and not the nil interface, so the call
\* goes on with the zero Value that its Elem() is.
TypeMapperUnmarshal(tm, ctx, data, dest) ==
    IF dest.k = "nil"
    THEN Panic("runtime error: invalid memory address or nil pointer dereference",
               dest, <<>>)
    ELSE IF dest.k # "ptr"
    THEN Panic("cannot unmarshal to non-pointer", dest, <<>>)
    ELSE LET Flattened(r) ==
                 IF r.panic = "" /\ r.err # NilErr /\ r.err.kind = "FieldError"
                 THEN [r EXCEPT !.err = Flatten(@)]
                 ELSE r
             Decoded(g, j) ==
                 IF g.panic # "" THEN Panic(g.panic, Elem(dest), <<>>)
                 ELSE IF j.err = "SyntaxError"
                 THEN Ret(NewValidationError("invalid character"), Elem(dest), <<>>)
                 ELSE IF j.err = "UnmarshalTypeError"
                 THEN Ret(NewValidationError("json: cannot unmarshal, not an object"),
                          Elem(dest), <<>>)
                 ELSE Flattened(TypeMapUnmarshal(Get(g.m), ctx, None, j.v, Elem(dest)))
         IN Decoded(getTypeMap(tm, dest), jsonUnmarshal(data))

\* (*TypeMapper).Marshal
TypeMapperMarshal(tm, ctx, src) ==
    LET Found(g) == IF g.panic # "" THEN MPanic(g.panic)
                    ELSE TypeMapMarshal(Get(g.m), ctx, None, src)
    IN Found(getTypeMap(tm, src))

\* ---------------------------------------------------------------- inputs
EmptyContext == JNull

Long == "thisvalueistoolong"

\* a choice for one key of an input object: the key, the values it may carry
\* and whether it may be absent
Key(key, raws, absent) == [key |-> key, raws |-> raws, absent |-> absent]

RECURSIVE Objects(_)
Objects(keys) ==
    IF keys = <<>> THEN {EmptyFn}
    ELSE LET h == Head(keys)
             rest == Objects(Tail(keys))
         IN (IF h.absent THEN rest ELSE {})
            \cup {[x \in DOMAIN m \cup {h.key} |-> IF x = h.key THEN v ELSE m[x]] :
                    m \in rest, v \in h.raws}

\* the longest array offered to a slice with length bounds
MaxBounded == MaxElems + 1

Lists(elems) == UNION {[1..n -> elems] : n \in 0..MaxElems}

Obj1(key, v) == JObj([x \in {key} |-> v])

InnerObjects ==
    { JObj(EmptyFn), Obj1("foo", JStr("bar")),
      JObj([foo |-> JStr("foo"), an_int |-> JNum(70), a_bool |-> JBool(TRUE)]),
      Obj1("foo", JStr(Long)),
      JObj([foo |-> JStr(Long), a_bool |-> JBool(TRUE)]),
      JObj([foo |-> JNum(120), an_int |-> JNum(20480)]) }

\* three values of OuterSliceThing's object: one that decodes, one whose second
\* element fails, one whose two elements fail
DeepObjects ==
    { Obj1("inner_things", JList(<<Obj1("foo", JStr("bar"))>>)),
      Obj1("inner_things", JList(<<Obj1("foo", JStr("bar")), Obj1("foo", JStr(Long))>>)),
      Obj1("inner_things", JList(<<Obj1("foo", JStr(Long)), Obj1("foo", JNum(120))>>)) }

\* arrays of up to MaxBounded strings, and one with an element that is none
BoundedLists ==
    {JList([i \in 1..n |-> JStr("foo")]) : n \in 0..MaxBounded}
    \cup {JList(<<JNum(120)>>)}

\* the parsed documents offered to a destination of structure type n
Documents(n) ==
    CASE n = "InnerThing" ->
           Objects(<< Key("foo", {JNull, JStr("bar"), JStr(Long), JNum(120)}, TRUE),
                      Key("an_int", {JNum(70), JNum(20480), JNum(121)}, TRUE),
                      Key("a_bool", {JBool(TRUE), JNum(120)}, TRUE),
                      Key("extra", {JStr("bar")}, TRUE) >>)
      [] n \in {"OuterThing", "OuterPointerThing", "OuterInterfaceThing"} ->
           Objects(<< Key("inner_thing", InnerObjects \cup {JNull, JStr("bar")}, TRUE) >>)
      [] n = "OuterSliceThing" ->
           Objects(<< Key("inner_things",
                          {JNull, JStr("bar")}
                          \cup {JList(l) : l \in Lists({Obj1("foo", JStr("bar")),
                                                        Obj1("foo", JStr("foo")),
                                                        Obj1("foo", JStr(Long))})},
                          TRUE) >>)
      [] n = "OuterVariableThing" ->
           Objects(<< Key("inner_type",
                          {JStr("foo"), JStr("bar"), JStr("baz"), JNum(120)}, TRUE),
                      Key("inner_thing",
                          {JNull, JStr("bar"), Obj1("foo", JStr("bar")),
                           Obj1("bar", JStr("foo")), Obj1("foo", JStr(Long))}, TRUE) >>)
      [] n = "UnionFirstThing" ->
           Objects(<< Key("inner_type", {JStr("foo"), JStr("bar"), JStr("baz")}, TRUE),
                      Key("inner_thing",
                          {Obj1("foo", JStr("bar")), Obj1("bar", JStr("foo"))}, TRUE) >>)
      [] n = "ReadOnlyThing" ->
           Objects(<< Key("primary_key", {JNull, JStr("foo")}, TRUE) >>)
      [] n = "ThingWithSliceOfPrimitives" ->
           Objects(<< Key("strings",
                          {JNull} \cup {JList(l) : l \in Lists({JStr("foo"), JStr("bar"),
                                                                JNum(120)})},
                          TRUE) >>)
      [] n = "ThingWithMapOfInterfaces" ->
           Objects(<< Key("interfaces",
                          {JNull, JStr("bar")}
                          \cup {JObj(m) : m \in Objects(
                                   << Key("foo", {JStr("bar"), JNull, JNum(100)}, TRUE),
                                      Key("bar", {JStr("foo")}, TRUE) >>)},
                          TRUE) >>)
      [] n = "ThingWithMapOfPrimitives" ->
           Objects(<< Key("strings",
                          {JNull}
                          \cup {JObj(m) : m \in Objects(
                                   << Key("foo", {JStr("bar"), JStr(Long), JNum(120)}, TRUE),
                                      Key("bar", {JStr("foo"), JStr("")}, TRUE) >>)},
                          TRUE) >>)
      [] n = "UnregisteredThing" -> Objects(<< Key("foo", {JStr("bar")}, TRUE) >>)
      [] n = "TypoedThing" -> Objects(<< Key("correct", {JBool(TRUE)}, TRUE) >>)
      [] n = "BoundedThing" ->
           Objects(<< Key("at_most", BoundedLists, TRUE),
                      Key("at_least", BoundedLists, TRUE) >>)
      [] n = "RangedThing" ->
           Objects(<< Key("between", BoundedLists, TRUE),
                      Key("exactly", BoundedLists, TRUE) >>)
      [] n = "TypoedRecordThing" ->
           Objects(<< Key("name", {JStr("bar"), JStr(Long)}, TRUE),
                      Key("correct", {JBool(TRUE), JNull}, TRUE),
                      Key("note", {JStr("foo")}, TRUE) >>)
      [] n = "TypoedReadOnlyThing" ->
           Objects(<< Key("primary_key", {JStr("foo")}, TRUE) >>)
      [] n = "TemplatableThing" ->
           Objects(<< Key("some_field", {JNull, JStr("bar")}, TRUE) >>)
      [] n = "LabelledThing" ->
           Objects(<< Key("label", {JStr("baz"), JStr(Long)}, TRUE),
                      Key("some_field", {JStr("bar")}, TRUE) >>)
      [] n = "OuterLabelledThing" ->
           Objects(<< Key("things",
                          {JList(l) : l \in Lists({JObj(m) : m \in
                              Objects(<< Key("label", {JStr("baz"), JStr(Long)}, FALSE),
                                         Key("some_field", {JStr("bar")}, TRUE) >>)})},
                          FALSE) >>)
      [] n = "BrokenThing" ->
           Objects(<< Key("invalid", {JNull, JStr("definitely"), JNum(5)}, TRUE) >>)
      [] n = "ThingWithInterface" ->
           Objects(<< Key("anything", {JNull, JStr("bar"), JNum(120)}, TRUE) >>)
      [] n = "LooseThing" ->
           Objects(<< Key("both", {JNull, JStr("bar"), JNum(5)}, TRUE),
                      Key("neither", {JNull, JStr("foo")}, TRUE) >>)
      [] n = "DeepThing" ->
           Objects(<< Key("things", {JList(l) : l \in Lists(DeepObjects)}, FALSE) >>)
      [] n = "RecordThing" ->
           Objects(<< Key("primary_key", {JStr("foo")}, TRUE),
                      Key("name", {JNull, JStr("bar"), JStr(Long)}, TRUE),
                      Key("note", {JNull, JStr("foo"), JNum(120)}, TRUE),
                      Key("thing", {JNull, JStr("bar"), JObj(EmptyFn),
                                    Obj1("primary_key", JStr("foo"))}, TRUE) >>)

\* the keys of parsed object m are the JSON names of struct node sm
ExactKeys(sm, m) == DOMAIN m = {sm.Fields[k].JSONFieldName : k \in DOMAIN sm.Fields}

\* the node that decodes the field of struct node sm held in node, for an
\* object m: a union node stands for the variant that m's discriminator names
ResolvedNode(node, sm, m) ==
    IF node.kind # "variableType" THEN node
    ELSE LET named == {sm.Fields[k].JSONFieldName : k \in
                          {i \in DOMAIN sm.Fields :
                              sm.Fields[i].StructFieldName = node.switchOnFieldName}}
             keys == {key \in named \cap DOMAIN m :
                         m[key].k = "string" /\ m[key].v \in DOMAIN node.types}
         IN  IF keys = {} THEN [kind |-> "unresolved"]
             ELSE node.types[m[CHOOSE key \in keys : TRUE].v]

\* document j has, wherever node has a struct node, an object with exactly
\* the struct node's keys (or a null)
RECURSIVE ExactDocument(_, _)
ExactDocument(node, j) ==
    CASE node.kind = "StructMap" /\ j.k = "object" ->
           /\ ExactKeys(node, j.m)
           /\ \A k \in DOMAIN node.Fields :
                 IsNone(node.Fields[k].Contains)
                 \/ ExactDocument(ResolvedNode(Get(node.Fields[k].Contains), node, j.m),
                                  j.m[node.Fields[k].JSONFieldName])
      [] node.kind = "SliceMap" /\ j.k = "list" ->
           \A i \in DOMAIN j.l : ExactDocument(node.Contains, j.l[i])
      [] node.kind = "MapMap" /\ j.k = "object" ->
           \A key \in DOMAIN j.m : ExactDocument(node.Contains, j.m[key])
      [] node.kind \in {"variableType", "unresolved"} -> FALSE
      [] OTHER -> TRUE

\* the text of document j with the keys of every object that a struct node
\* of node stands for in the order of the struct node's descriptors
RECURSIVE DeclaredOrderText(_, _), DeclaredOrderFields(_, _, _), DeclaredOrderElems(_, _, _),
          DeclaredOrderKeys(_, _, _)
DeclaredOrderText(node, j) ==
    CASE node.kind = "StructMap" /\ j.k = "object" ->
           <<Tok("{")>> \o DeclaredOrderFields(node, j.m, 1) \o <<Tok("}")>>
      [] node.kind = "SliceMap" /\ j.k = "list" ->
           <<Tok("[")>> \o DeclaredOrderElems(node, j.l, 1) \o <<Tok("]")>>
      [] node.kind = "MapMap" /\ j.k = "object" ->
           <<Tok("{")>> \o DeclaredOrderKeys(node, j.m, KeysOf(j.m)) \o <<Tok("}")>>
      [] OTHER -> jsonMarshal(j).data
DeclaredOrderFields(sm, m, i) ==
    IF i > Len(sm.Fields) THEN <<>>
    ELSE << TStr(sm.Fields[i].JSONFieldName), Tok(":") >>
         \o (IF IsNone(sm.Fields[i].Contains)
             THEN jsonMarshal(m[sm.Fields[i].JSONFieldName]).data
             ELSE DeclaredOrderText(ResolvedNode(Get(sm.Fields[i].Contains), sm, m),
                                    m[sm.Fields[i].JSONFieldName]))
         \o (IF i < Len(sm.Fields) THEN <<Tok(",")>> ELSE <<>>)
         \o DeclaredOrderFields(sm, m, i + 1)
DeclaredOrderElems(sm, l, i) ==
    IF i > Len(l) THEN <<>>
    ELSE DeclaredOrderText(sm.Contains, l[i])
         \o (IF i < Len(l) THEN <<Tok(",")>> ELSE <<>>)
         \o DeclaredOrderElems(sm, l, i + 1)
DeclaredOrderKeys(mm, m, keys) ==
    IF keys = <<>> THEN <<>>
    ELSE << TStr(Head(keys)), Tok(":") >> \o DeclaredOrderText(mm.Contains, m[Head(keys)])
         \o (IF Len(keys) > 1 THEN <<Tok(",")>> ELSE <<>>)
         \o DeclaredOrderKeys(mm, m, Tail(keys))

\* the bytes a caller may pass: every document above as encoding/json writes
\* it, those with exactly the mapped keys also with the keys in declared
\* order, a text cut short, and texts whose top-level value is no object
Inputs(n) ==
    {jsonMarshal(JObj(m)).data : m \in Documents(n)}
    \cup (IF n \in DOMAIN TestTypeMapper
          THEN {DeclaredOrderText(TestTypeMapper[n], JObj(m)) :
                  m \in {d \in Documents(n) : ExactDocument(TestTypeMapper[n], JObj(d))}}
          ELSE {})
    \cup { << Tok("{"), TStr("foo"), Tok(":") >>, << Tok("["), Tok("]") >>,
           << Tok("null") >> }

\* the destinations a caller starts from: the zero value of every registered
\* type and of a type that is not registered, and structures whose members
\* the caller has set itself
InitialDests ==
    {Zero(TStruct(n)) : n \in DOMAIN TestTypeMapper \cup {"UnregisteredThing"}}
    \cup { GoStruct("ReadOnlyThing", [PrimaryKey |-> GoString("pk")]),
           GoStruct("RecordThing",
                    [PrimaryKey |-> GoString("pk"), Name |-> GoString(""),
                     Note |-> GoString(""),
                     Thing |-> GoPtr(TStruct("ReadOnlyThing"),
                                     Some(GoStruct("ReadOnlyThing",
                                                   [PrimaryKey |-> GoString("pk")])))]),
           GoStruct("LooseThing", [Both |-> GoString("bar"), Neither |-> GoString("foo")]),
           GoStruct("TemplatableThing", [SomeField |-> GoString("bar")]),
           GoStruct("OuterLabelledThing",
                    [Things |-> GoSlice(TStruct("LabelledThing"), FALSE,
                        << GoStruct("LabelledThing",
                                    [Label |-> GoString("baz"), SomeField |-> GoString("bar")]),
                           GoStruct("LabelledThing",
                                    [Label |-> GoString("dux"), SomeField |-> GoString("")])
                        >>)]) }

\* ---------------------------------------------------------- state machine
VARIABLES
    dest,    \* the structure the caller decodes into and encodes from
    calls,   \* how many times the caller has decoded into dest
    last     \* the last API call: what it was given and what it gave back

\* what goroutines that call the same TypeMapper share, and each one's own
VARIABLES
    typeMaps,   \* tm.typeMaps, the registry
    mem,        \* the destination structures, mem[g] being goroutine g's
    heap,       \* the error accumulators allocated so far, each with its owner
    goroutine   \* each goroutine's call: arguments, position, locals, result

svars == <<dest, calls, last, rangeOrder>>
cvars == <<typeMaps, mem, heap, goroutine>>
vars == <<dest, calls, last, rangeOrder, typeMaps, mem, heap, goroutine>>

NoCall ==
    [op |-> "none", data |-> <<>>, pre |-> JNull, post |-> JNull, err |-> NilErr,
     panic |-> "", log |-> <<>>, out |-> <<>>]

AddrOf(v) == GoPtr(TypeOf(v), Some(v))

\* the orders that can tell two calls on v apart: one when v's type holds no
\* map, as no call on v then ranges over a map
RangeOrdersOf(v) ==
    IF \E i \in DOMAIN StructDecl(v.name) : StructDecl(v.name)[i].type.k = "map"
    THEN RangeOrders ELSE {"ascending"}

Init ==
    /\ dest \in InitialDests
    /\ calls = 0
    /\ last = NoCall
    /\ rangeOrder \in RangeOrdersOf(dest)
    /\ typeMaps = TestTypeMapper
    /\ mem = <<>>
    /\ heap = <<>>
    /\ goroutine = <<>>

\* what an Unmarshal call was given and what it gave back
Decoding(op, data, pre, r) ==
    [op |-> op, data |-> data, pre |-> pre, post |-> r.dst, err |-> r.err,
     panic |-> r.panic, log |-> r.log, out |-> <<>>]

\* what a Marshal call was given and what it gave back
Encoding(pre, r) ==
    [op |-> "Marshal", data |-> <<>>, pre |-> pre, post |-> pre, err |-> r.err,
     panic |-> r.panic, log |-> <<>>, out |-> r.data]

\* TestTypeMapper.Unmarshal(EmptyContext, data, &dest)
Unmarshal(data) ==
    /\ calls < MaxCalls
    /\ last' = Decoding("Unmarshal", data, dest,
                        TypeMapperUnmarshal(TestTypeMapper, EmptyContext, data,
                                            AddrOf(dest)))
    /\ dest' = last'.post
    /\ calls' = calls + 1
    /\ rangeOrder' \in RangeOrdersOf(dest)
    /\ UNCHANGED cvars

\* TestTypeMapper.Marshal(EmptyContext, &dest)
Marshal ==
    /\ last.op # "Marshal"
    /\ last' = Encoding(dest, TypeMapperMarshal(TestTypeMapper, EmptyContext, AddrOf(dest)))
    /\ UNCHANGED <<dest, calls>>
    /\ rangeOrder' \in RangeOrdersOf(dest)
    /\ UNCHANGED cvars

\* v := &T{}; TestTypeMapper.Unmarshal(EmptyContext, out, v), out being what
\* the Marshal just before returned
UnmarshalFresh ==
    /\ last.op = "Marshal" /\ last.panic = "" /\ last.err = NilErr
    /\ last' = Decoding("UnmarshalFresh", last.out, Zero(TypeOf(dest)),
                        TypeMapperUnmarshal(TestTypeMapper, EmptyContext, last.out,
                                            AddrOf(Zero(TypeOf(dest)))))
    /\ UNCHANGED <<dest, calls>>
    /\ rangeOrder' \in RangeOrdersOf(dest)
    /\ UNCHANGED cvars

\* what a caller may pass for dest that is not the address of a structure:
\* the structure itself, the nil interface, a nil pointer
NoAddress(v) == {v, JNull, GoPtr(TypeOf(v), None)}

\* TestTypeMapper.Unmarshal(EmptyContext, data, d) as the caller's first call,
\* d being no address of a structure
UnmarshalNoAddress(data, d) ==
    /\ last.op = "none"
    /\ last' = Decoding("UnmarshalNoAddress", data, d,
                        TypeMapperUnmarshal(TestTypeMapper, EmptyContext, data, d))
    /\ UNCHANGED <<dest, calls>>
    /\ rangeOrder' \in RangeOrdersOf(dest)
    /\ UNCHANGED cvars

\* the values of dest's type T a caller may pass to Marshal other than &dest:
\* a T, a []T, a []*T and a *[]T
Forms(v) ==
    { v, GoSlice(TypeOf(v), FALSE, <<v, v>>),
      GoSlice(TPtr(TypeOf(v)), FALSE, <<AddrOf(v)>>),
      AddrOf(GoSlice(TypeOf(v), FALSE, <<v>>)) }

\* TestTypeMapper.Marshal(EmptyContext, src), once on a destination
MarshalForm(src) ==
    /\ last.op \in {"none", "Unmarshal"}
    /\ last' = [Encoding(src, TypeMapperMarshal(TestTypeMapper, EmptyContext, src))
                   EXCEPT !.op = "MarshalForm"]
    /\ UNCHANGED <<dest, calls>>
    /\ rangeOrder' \in RangeOrdersOf(dest)
    /\ UNCHANGED cvars

\* the texts of arrays of objects
ArrayInputs == {jsonMarshal(JList(l)).data : l \in Lists({JObj(EmptyFn)})}

\* var s []T; TestTypeMapper.Unmarshal(EmptyContext, data, &s) as the caller's
\* first call, T being dest's type
UnmarshalSlice(data) ==
    /\ last.op = "none"
    /\ last' = Decoding("UnmarshalSlice", data, Zero(TSlice(TypeOf(dest))),
                        TypeMapperUnmarshal(TestTypeMapper, EmptyContext, data,
                                            AddrOf(Zero(TSlice(TypeOf(dest))))))
    /\ UNCHANGED <<dest, calls>>
    /\ rangeOrder' \in RangeOrdersOf(dest)
    /\ UNCHANGED cvars

Next ==
    \/ \E data \in Inputs(dest.name) : Unmarshal(data)
    \/ Marshal
    \/ UnmarshalFresh
    \/ \E data \in Inputs(dest.name), d \in NoAddress(dest) : UnmarshalNoAddress(data, d)
    \/ \E src \in Forms(dest) : MarshalForm(src)
    \/ \E data \in ArrayInputs : UnmarshalSlice(data)

Spec == Init /\ [][Next]_vars

\* ------------------------------------------------ calls with a context
\* The caller passes a context of its own choice with every call.
FooContext(foo) == GoStruct("", [Foo |-> GoString(foo)])
Contexts == {EmptyContext, FooContext("foo"), FooContext("qux")}

\* the structures the caller with a context starts from
ContextDests ==
    {d \in InitialDests :
        d.name \in {"TemplatableThing", "LabelledThing", "OuterLabelledThing",
                    "OuterSliceThing", "OuterVariableThing",
                    "ThingWithMapOfPrimitives"}}

InitContext ==
    /\ dest \in ContextDests
    /\ calls = 0
    /\ last = NoCall
    /\ rangeOrder \in RangeOrdersOf(dest)
    /\ typeMaps = TestTypeMapper
    /\ mem = <<>>
    /\ heap = <<>>
    /\ goroutine = <<>>

\* a call together with the context it was given
WithContext(call, ctx) ==
    [f \in DOMAIN call \cup {"ctx"} |-> IF f = "ctx" THEN ctx ELSE call[f]]

\* TestTypeMapper.Unmarshal(ctx, data, &dest)
UnmarshalWith(ctx, data) ==
    /\ calls < MaxCalls
    /\ last' = WithContext(Decoding("Unmarshal", data, dest,
                                    TypeMapperUnmarshal(TestTypeMapper, ctx, data,
                                                        AddrOf(dest))), ctx)
    /\ dest' = last'.post
    /\ calls' = calls + 1
    /\ rangeOrder' \in RangeOrdersOf(dest)
    /\ UNCHANGED cvars

\* TestTypeMapper.Marshal(ctx, &dest)
MarshalWith(ctx) ==
    /\ last.op # "Marshal"
    /\ last' = WithContext(Encoding(dest, TypeMapperMarshal(TestTypeMapper, ctx,
                                                            AddrOf(dest))), ctx)
    /\ UNCHANGED <<dest, calls>>
    /\ rangeOrder' \in RangeOrdersOf(dest)
    /\ UNCHANGED cvars

NextContext ==
    \/ \E ctx \in Contexts, data \in Inputs(dest.name) : UnmarshalWith(ctx, data)
    \/ \E ctx \in Contexts : MarshalWith(ctx)

SpecContext == InitContext /\ [][NextContext]_vars

\* ------------------------------------------------- two concurrent callers
\* Two goroutines call one TypeMapper, each with a destination of its own.
\* A call is taken apart at the points where it reads or writes memory that
\* another goroutine can reach: the registry, the heap of error nodes, the
\* destinations.
G == {1, 2}

Idle(op, data, pre) ==
    [op |-> op, data |-> data, pre |-> pre, pc |-> "start", m |-> None,
     partial |-> JNull, errs |-> 0, i |-> 0, err |-> NilErr, panic |-> "",
     out |-> <<>>, depth |-> 0]

\* the destinations and the bytes of the concurrent callers
ConcurrentDests ==
    { Zero(TStruct("InnerThing")), Zero(TStruct("UnregisteredThing")),
      Zero(TStruct("LooseThing")), Zero(TStruct("OuterSliceThing")),
      Zero(TStruct("DeepThing")),
      GoStruct("RecordThing",
               [PrimaryKey |-> GoString("pk"), Name |-> GoString(""),
                Note |-> GoString(""), Thing |-> GoPtr(TStruct("ReadOnlyThing"), None)]) }

ConcurrentDocuments(n) ==
    CASE n = "InnerThing" ->
           { EmptyFn, [foo |-> JStr("bar"), an_int |-> JNum(70)],
             [foo |-> JStr(Long), an_int |-> JNum(20480), a_bool |-> JNum(120)] }
      [] n = "RecordThing" ->
           { EmptyFn, [name |-> JStr("bar"), note |-> JStr("foo")],
             [name |-> JStr(Long), note |-> JNum(120), thing |-> JStr("bar")] }
      [] n = "LooseThing" -> { [both |-> JNum(5)], [both |-> JStr("bar"), neither |-> JNull] }
      [] n = "OuterSliceThing" ->
           { [inner_things |-> JStr("bar")],
             [inner_things |->
                 JList(<< Obj1("foo", JStr("bar")),
                          Obj1("foo", JList(<<JList(<<JList(<<JStr("dang")>>)>>)>>)) >>)] }
      [] n = "DeepThing" ->
           { [things |-> JList(<<Obj1("inner_things", JList(<<Obj1("foo", JStr("bar"))>>))>>)] }
      [] OTHER -> { EmptyFn }

ConcurrentInputs(n) ==
    {jsonMarshal(JObj(m)).data : m \in ConcurrentDocuments(n)}
    \cup { << Tok("{"), TStr("foo"), Tok(":") >> }

Calls(d) ==
    {Idle("Unmarshal", data, d) : data \in ConcurrentInputs(d.name)}
    \cup {Idle("Marshal", <<>>, d)}

InitConcurrent ==
    /\ dest = Zero(TStruct("InnerThing"))
    /\ calls = 0
    /\ last = NoCall
    /\ rangeOrder = "ascending"
    /\ typeMaps = TestTypeMapper
    /\ heap = <<>>
    /\ \E d1 \in ConcurrentDests, d2 \in ConcurrentDests :
           /\ mem = <<d1, d2>>
           /\ goroutine \in {<<c1, c2>> : c1 \in Calls(d1), c2 \in Calls(d2)}

\* a faulty allocation: every call after the first gets the first node
NewFieldErrorShared(h, g) ==
    [heap |-> IF h = <<>> THEN <<[by |-> g, node |-> NewValidationError("")]>> ELSE h,
     addr |-> 1]

\* errs := &FieldError{}: the heap with a new node of g's, and its address
NewFieldError(h, g) ==
    [heap |-> Append(h, [by |-> g, node |-> NewValidationError("")]),
     addr |-> Len(h) + 1]

\* the greatest of a set of numbers, 0 for none
Greatest(S) == IF S = {} THEN 0 ELSE CHOOSE n \in S : \A m \in S : m <= n

\* how many Decode calls were nested at most while log was written by a call
\* that was itself nested in depth - 1 calls
Nesting(depth, log) ==
    Greatest({depth} \cup {depth + Len(log[i].at) : i \in
                              {k \in DOMAIN log : log[k].ev = "call"}})

\* the end of a call
Finished(c, err, panic) == [c EXCEPT !.pc = "done", !.err = err, !.panic = panic]

\* m := tm.getTypeMap(dest), of Unmarshal and of Marshal
Lookup(g) ==
    LET c == goroutine[g]
        Found(r) == IF r.panic # "" THEN Finished(c, NilErr, r.panic)
                    ELSE [c EXCEPT !.m = r.m,
                                   !.pc = IF c.op = "Marshal" THEN "encode" ELSE "parse"]
    IN /\ c.pc = "start"
       /\ goroutine' = [goroutine EXCEPT ![g] = Found(getTypeMap(typeMaps, AddrOf(mem[g])))]
       /\ UNCHANGED <<typeMaps, mem, heap>>
       /\ UNCHANGED svars

\* json.Unmarshal(data, &partial) and the wrapping of its errors
Parse(g) ==
    LET c == goroutine[g]
        Parsed(j) ==
            IF j.err = "SyntaxError"
            THEN Finished(c, NewValidationError("invalid character"), "")
            ELSE IF j.err = "UnmarshalTypeError"
            THEN Finished(c, NewValidationError("json: cannot unmarshal, not an object"), "")
            ELSE [c EXCEPT !.partial = j.v, !.pc = "enter"]
    IN /\ c.pc = "parse"
       /\ goroutine' = [goroutine EXCEPT ![g] = Parsed(jsonUnmarshal(c.data))]
       /\ UNCHANGED <<typeMaps, mem, heap>>
       /\ UNCHANGED svars

\* StructMap.Unmarshal on the destination structure, up to its loop
Enter(g) ==
    LET c == goroutine[g]
        Allocated(a) ==
            /\ heap' = a.heap
            /\ goroutine' = [goroutine EXCEPT ![g] =
                                IF Len(Get(c.m).Fields) = 0
                                THEN [c EXCEPT !.errs = a.addr, !.pc = "return",
                                               !.depth = 1]
                                ELSE [c EXCEPT !.errs = a.addr, !.i = 1, !.pc = "field",
                                               !.depth = 1]]
    IN /\ c.pc = "enter"
       /\ IF c.partial.k # "object"
          THEN /\ goroutine' = [goroutine EXCEPT ![g] =
                                   [Finished(c, NewValidationError("expected an object"), "")
                                        EXCEPT !.depth = 1]]
               /\ UNCHANGED heap
          ELSE Allocated(NewFieldError(heap, g))
       /\ UNCHANGED <<typeMaps, mem>>
       /\ UNCHANGED svars

\* a faulty loop: after its last descriptor it starts over
FieldAgain(g) ==
    LET c == goroutine[g]
        sm == Get(c.m)
    IN /\ c.pc = "field"
       /\ goroutine' = [goroutine EXCEPT ![g] =
                           [c EXCEPT !.i = IF c.i = Len(sm.Fields) THEN 1 ELSE c.i + 1]]
       /\ UNCHANGED <<typeMaps, mem, heap>>
       /\ UNCHANGED svars

\* one turn of the loop of StructMap.Unmarshal, for descriptor c.i
Field(g) ==
    LET c == goroutine[g]
        sm == Get(c.m)
        Turned(r) ==
            /\ mem' = [mem EXCEPT ![g] = r.dst]
            /\ heap' = [heap EXCEPT ![c.errs].node = r.err]
            /\ goroutine' = [goroutine EXCEPT ![g] =
                                [(IF r.panic # "" THEN Finished(c, NilErr, r.panic)
                                  ELSE IF c.i = Len(sm.Fields) THEN [c EXCEPT !.pc = "return"]
                                  ELSE [c EXCEPT !.i = c.i + 1])
                                     EXCEPT !.depth = Greatest({@, Nesting(1, r.log)})]]
    IN /\ c.pc = "field"
       /\ Turned(StructMapUnmarshalFields([sm EXCEPT !.Fields = <<sm.Fields[c.i]>>],
                                          EmptyContext, c.partial.m, mem[g], 1,
                                          heap[c.errs].node, <<>>))
       /\ UNCHANGED typeMaps
       /\ UNCHANGED svars

\* the end of StructMap.Unmarshal and of TypeMapper.Unmarshal
Return(g) ==
    LET c == goroutine[g]
        errs == heap[c.errs].node
    IN /\ c.pc = "return"
       /\ goroutine' = [goroutine EXCEPT ![g] =
                           Finished(c, IF Len(errs.FieldErrors) # 0 THEN Flatten(errs)
                                   ELSE NilErr, "")]
       /\ UNCHANGED <<typeMaps, mem, heap>>
       /\ UNCHANGED svars

\* m.Marshal(ctx, nil, reflect.ValueOf(src)) and data.MarshalJSON()
Encode(g) ==
    LET c == goroutine[g]
        Encoded(r) == [Finished(c, r.err, r.panic) EXCEPT !.out = r.data]
    IN /\ c.pc = "encode"
       /\ goroutine' = [goroutine EXCEPT ![g] =
                           Encoded(TypeMapMarshal(Get(c.m), EmptyContext, None,
                                                  AddrOf(mem[g])))]
       /\ UNCHANGED <<typeMaps, mem, heap>>
       /\ UNCHANGED svars

NextConcurrent ==
    \/ \E g \in G : Lookup(g)
    \/ \E g \in G : Parse(g)
    \/ \E g \in G : Enter(g)
    \/ \E g \in G : Field(g)
    \/ \E g \in G : Return(g)
    \/ \E g \in G : Encode(g)

SpecConcurrent == InitConcurrent /\ [][NextConcurrent]_vars

\* The scheduler lets every goroutine that can take a step take one
\* eventually: weak fairness of g's steps (Lookup(g), Parse(g), Enter(g),
\* Field(g), Return(g), Encode(g)), written out by its definition,
\* []<>~ENABLED <<A>>_vars \/ []<><<A>>_vars, with what the two formulas come
\* to here: a goroutine can take a step unless its call has ended, and its
\* steps are the ones that change its record
Scheduled(g) ==
    \/ []<>(goroutine[g].pc = "done")
    \/ []<><<goroutine'[g] # goroutine[g]>>_vars

SpecScheduled == SpecConcurrent /\ \A g \in G : Scheduled(g)

\* ------------------------------------------------------------ properties
\* The properties read the history of the last API call.  Its first event is
\* the call of the root node; the events of a node called for field or index
\* x of a node at path p are at path p \o <<x>>.

IsCall(e, kind) == e.ev = "call" /\ e.node.kind = kind

\* the calls of StructMap.Unmarshal that were given an object and returned
IsStructCall(e) == IsCall(e, "StructMap") /\ e.partial.k = "object" /\ e.panic = ""

\* the structure a destination slot holds: the slot itself, or what its
\* pointer or interface refers to
RECURSIVE Referent(_)
Referent(v) ==
    IF v.k \in {"ptr", "iface"} THEN (IF IsNone(v.e) THEN v ELSE Referent(Get(v.e))) ELSE v

HoldsStruct(v) == Referent(v).k = "struct"

NamesOf(fields) == [i \in DOMAIN fields |-> fields[i].JSONFieldName]

Writable(node) == SelectSeq(node.Fields, LAMBDA f : ~f.ReadOnly)

\* the external names of the field descriptors whose destination member a
\* struct call at path at looked up, in the order it did
VisitedAt(at) ==
    NamesOf([i \in DOMAIN SelectSeq(last.log, LAMBDA e : e.ev = "field" /\ e.at = at) |->
               [JSONFieldName |->
                  SelectSeq(last.log, LAMBDA e : e.ev = "field" /\ e.at = at)[i].name]])

\* a node or a validator was invoked for path at
InvokedAt(at) == \E i \in DOMAIN last.log : last.log[i].ev \in {"call", "validate"}
                                            /\ last.log[i].at = at

\* the node called for path at returned an error
FailedAt(at) == \E i \in DOMAIN last.log : /\ last.log[i].ev = "call"
                                           /\ last.log[i].at = at
                                           /\ last.log[i].err # NilErr

\* field f of struct call c is absent from the input, or null and optional
Absent(c, f) == ~Has(c.partial.m, f.JSONFieldName)
Skipped(c, f) ==
    f.Optional /\ (Absent(c, f) \/ c.partial.m[f.JSONFieldName].k = "nil")

\* field f of struct call c fails: a required field is absent, its validator
\* rejects the value, or its nested node returns an error
Fails(c, f) ==
    IF Absent(c, f) THEN ~f.Optional
    ELSE IF Skipped(c, f) THEN FALSE
    ELSE IF ~IsNone(f.Contains) THEN FailedAt(c.at \o <<f.JSONFieldName>>)
    ELSE Validate(Get(f.Validator), c.partial.m[f.JSONFieldName]).err # NilErr

Failing(c) == SelectSeq(Writable(c.node), LAMBDA f : Fails(c, f))

ChildrenMatch(err, failing, c) ==
    /\ err.kind = "FieldError"
    /\ Len(err.FieldErrors) = Len(failing)
    /\ \A k \in DOMAIN failing :
         /\ err.FieldErrors[k].Field = failing[k].JSONFieldName
         /\ Absent(c, failing[k]) =>
              /\ err.FieldErrors[k].Message = "missing required field"
              /\ err.FieldErrors[k].FieldErrors = <<>>

StructOutcome(c) ==
    /\ VisitedAt(c.at) = NamesOf(Writable(c.node))
    /\ (c.err = NilErr) <=> (Failing(c) = <<>>)
    /\ c.err # NilErr => ChildrenMatch(c.err, Failing(c), c)

\* C1: every StructMap.Unmarshal that is given an object and returns has
\* looked at all of its non-read-only field descriptors in declared order;
\* its error tree has exactly one child per failing field (a required field
\* absent: "missing required field"; a validator's rejection; a nested node's
\* error), named by the field's JSON name, in declared order; and it returns
\* no error exactly when no field failed.
C1_StructCollectsEveryFieldError ==
    \A i \in DOMAIN last.log : IsStructCall(last.log[i]) => StructOutcome(last.log[i])

\* a struct call where two fields at least failed, one of them an absent
\* required field and another one present in the input
C1_Witness ==
    \E i \in DOMAIN last.log :
        /\ IsStructCall(last.log[i])
        /\ Len(Failing(last.log[i])) >= 2
        /\ \E k \in DOMAIN Failing(last.log[i]) : Absent(last.log[i], Failing(last.log[i])[k])
        /\ \E k \in DOMAIN Failing(last.log[i]) : ~Absent(last.log[i], Failing(last.log[i])[k])

\* a Go scalar as encoding/json parses what it wrote for it
AsParsed(v) == IF v.k = "int64" THEN JNum(10 * v.n) ELSE v

\* v is valid under node: every member passes the validator of its
\* descriptor, a nil slice, pointer or interface being valid; a structure
\* with a read-only descriptor, which decode never fills, is left out
RECURSIVE ValidUnder(_, _, _)
ValidUnder(node, parent, v) ==
    CASE node.kind = "StructMap" ->
           \/ ~HoldsStruct(v)
           \/ /\ Referent(v).name = node.UnderlyingType
              /\ \A i \in DOMAIN node.Fields :
                   /\ ~node.Fields[i].ReadOnly
                   /\ IF ~IsNone(node.Fields[i].Contains)
                      THEN ValidUnder(Get(node.Fields[i].Contains), Some(Referent(v)),
                                      Referent(v).f[node.Fields[i].StructFieldName])
                      ELSE Validate(Get(node.Fields[i].Validator),
                                    AsParsed(Referent(v).f[node.Fields[i].StructFieldName])
                                   ).err = NilErr
      [] node.kind = "SliceMap" ->
           \A i \in DOMAIN v.v : ValidUnder(node.Contains, Some(v), v.v[i])
      [] node.kind = "variableType" ->
           \/ ~HoldsStruct(v)
           \/ /\ pickTypeMap(node, parent).panic = ""
              /\ pickTypeMap(node, parent).err = NilErr
              /\ ValidUnder(Get(pickTypeMap(node, parent).tm), parent, v)
      [] node.kind = "primitiveMap" -> Validate(node.validator, AsParsed(v)).err = NilErr

\* C2: when the structure s is valid under its mapping, decoding what Marshal
\* wrote for s into a new zero structure returns no error and gives a
\* structure equal to s, nil slices and nil pointers of s included.
C2_RoundTrip ==
    (last.op = "UnmarshalFresh" /\ ValidUnder(TestTypeMapper[dest.name], None, dest))
        => (last.panic = "" /\ last.err = NilErr /\ last.post = dest)

\* the member a read-only or optional descriptor f names, seen through slot v
Member(v, f) == Referent(v).f[f.StructFieldName]

IsAnyStructCall(e) == IsCall(e, "StructMap")

\* what Marshal wrote holds a pair for every read-only descriptor of node and
\* of the struct nodes below it, with the member's value
RECURSIVE EmitsReadOnly(_, _, _)
EmitsReadOnly(node, v, parsed) ==
    IF node.kind # "StructMap" \/ ~HoldsStruct(v) THEN TRUE
    ELSE /\ parsed.k = "object"
         /\ \A i \in DOMAIN node.Fields :
              /\ Has(parsed.m, node.Fields[i].JSONFieldName)
              /\ node.Fields[i].ReadOnly /\ IsNone(node.Fields[i].Contains) =>
                   parsed.m[node.Fields[i].JSONFieldName]
                       = AsParsed(Member(v, node.Fields[i]))
              /\ ~IsNone(node.Fields[i].Contains) =>
                   EmitsReadOnly(Get(node.Fields[i].Contains), Member(v, node.Fields[i]),
                                 parsed.m[node.Fields[i].JSONFieldName])

MarshalEmitsReadOnly ==
    (last.op = "Marshal" /\ last.panic = "" /\ last.err = NilErr)
        => EmitsReadOnly(TestTypeMapper[dest.name], dest, jsonUnmarshal(last.out).v)

\* the read-only descriptors of a struct node that name a member
ReadOnlyFields(node) ==
    SelectSeq(node.Fields,
              LAMBDA f : f.ReadOnly /\ f.StructFieldName \in FieldNames(node.UnderlyingType))

\* C3, as the specification states it: after any StructMap.Unmarshal a
\* read-only field of the destination has the value it had before the
\* call, and Marshal writes a pair for every read-only field.
C3_ReadOnlyKeepsPriorValue ==
    /\ \A i \in DOMAIN last.log :
         (IsAnyStructCall(last.log[i]) /\ HoldsStruct(last.log[i].pre)) =>
             \A k \in DOMAIN ReadOnlyFields(last.log[i].node) :
                 Member(last.log[i].post, ReadOnlyFields(last.log[i].node)[k])
                     = Member(last.log[i].pre, ReadOnlyFields(last.log[i].node)[k])
    /\ MarshalEmitsReadOnly

\* the read-only members of the structure a struct call leaves in its slot:
\* those the slot's structure had, or those of the zero structure when the
\* call put a new instance in a pointer or interface slot
ReadOnlyAfter(c, f) ==
    IF c.pre.k = "struct" THEN Member(c.post, f) = Member(c.pre, f)
    ELSE IF c.partial.k = "object" /\ c.pre.k \in {"ptr", "iface"}
    THEN Member(c.post, f) = Member(Zero(TStruct(c.node.UnderlyingType)), f)
    ELSE c.post = c.pre

\* C3, amended: StructMap.Unmarshal never assigns a read-only field from
\* the input, whether it succeeds or fails: a destination that is a structure
\* value keeps the field's value; a destination that is a pointer or an
\* interface slot given an object receives a new instance whose read-only
\* fields are zero, whatever the slot referred to before; and Marshal writes
\* a pair for every read-only field.
C3_ReadOnlyNeverDecoded ==
    /\ \A i \in DOMAIN last.log :
         IsAnyStructCall(last.log[i]) =>
             \A k \in DOMAIN ReadOnlyFields(last.log[i].node) :
                 ReadOnlyAfter(last.log[i], ReadOnlyFields(last.log[i].node)[k])
    /\ MarshalEmitsReadOnly

\* a struct call whose input carries a value for a read-only field that
\* differs from the non-zero value the field holds
C3_Witness ==
    \E i \in DOMAIN last.log :
        /\ IsStructCall(last.log[i])
        /\ last.log[i].pre.k = "struct"
        /\ \E k \in DOMAIN ReadOnlyFields(last.log[i].node) :
             LET f == ReadOnlyFields(last.log[i].node)[k] IN
             /\ Has(last.log[i].partial.m, f.JSONFieldName)
             /\ Member(last.log[i].pre, f) # GoString("")
             /\ last.log[i].partial.m[f.JSONFieldName] # Member(last.log[i].pre, f)

OptionalFields(node) == SelectSeq(node.Fields, LAMBDA f : f.Optional /\ ~f.ReadOnly)

NoErrorFor(c, f) ==
    c.err = NilErr \/ \A k \in DOMAIN c.err.FieldErrors :
                          c.err.FieldErrors[k].Field # f.JSONFieldName

\* C4, as the specification states it: an optional field whose key is
\* absent or null gets no error, neither its validator nor its node is
\* invoked, and the destination's field has its value of before the call.
C4_OptionalKeepsPriorValue ==
    \A i \in DOMAIN last.log :
        IsStructCall(last.log[i]) =>
            \A k \in DOMAIN OptionalFields(last.log[i].node) :
                LET c == last.log[i]
                    f == OptionalFields(last.log[i].node)[k]
                IN Skipped(c, f) =>
                     /\ NoErrorFor(c, f)
                     /\ ~InvokedAt(c.at \o <<f.JSONFieldName>>)
                     /\ HoldsStruct(c.pre) => Member(c.post, f) = Member(c.pre, f)

\* C4, amended: an optional field whose key is absent or null gets no
\* error, neither its validator nor its node is invoked, and the field is
\* not assigned: it keeps its value when the destination is a structure
\* value, and is zero in the new instance a pointer or interface slot receives.
C4_OptionalSkipped ==
    \A i \in DOMAIN last.log :
        IsStructCall(last.log[i]) =>
            \A k \in DOMAIN OptionalFields(last.log[i].node) :
                LET c == last.log[i]
                    f == OptionalFields(last.log[i].node)[k]
                IN Skipped(c, f) =>
                     /\ NoErrorFor(c, f)
                     /\ ~InvokedAt(c.at \o <<f.JSONFieldName>>)
                     /\ IF c.pre.k = "struct"
                        THEN Member(c.post, f) = Member(c.pre, f)
                        ELSE Member(c.post, f)
                                 = Member(Zero(TStruct(c.node.UnderlyingType)), f)

\* a struct call on a structure value given null for an optional field that
\* holds a value other than zero
C4_Witness ==
    \E i \in DOMAIN last.log :
        /\ IsStructCall(last.log[i])
        /\ last.log[i].pre.k = "struct"
        /\ \E k \in DOMAIN OptionalFields(last.log[i].node) :
             LET f == OptionalFields(last.log[i].node)[k] IN
             /\ Has(last.log[i].partial.m, f.JSONFieldName)
             /\ last.log[i].partial.m[f.JSONFieldName].k = "nil"
             /\ Member(last.log[i].pre, f)
                    # Member(Zero(TStruct(last.log[i].node.UnderlyingType)), f)

\* the calls of SliceMap.Unmarshal that were given an array of a length
\* within the node's bounds and returned
IsSliceCall(e) ==
    /\ IsCall(e, "SliceMap") /\ e.partial.k = "list" /\ e.panic = ""
    /\ IsNone(e.node.minLen) \/ Get(e.node.minLen) <= Len(e.partial.l)
    /\ IsNone(e.node.maxLen) \/ Len(e.partial.l) <= Get(e.node.maxLen)

\* the path of element k (counted from 1) of the array of slice call c
ElemPath(c, k) == c.at \o <<ToString(k - 1)>>

\* what the node called for path at left in the element slot it was given
DecodedAt(at) ==
    last.log[CHOOSE i \in DOMAIN last.log :
                 last.log[i].ev = "call" /\ last.log[i].at = at].post

\* C5: when SliceMap.Unmarshal returns no error for an array of n elements,
\* the destination slice is exactly the n decoded elements in input order,
\* whatever it held before.
C5_SliceBecomesDecodedList ==
    \A i \in DOMAIN last.log :
        (IsSliceCall(last.log[i]) /\ last.log[i].err = NilErr) =>
            /\ Len(last.log[i].post.v) = Len(last.log[i].partial.l)
            /\ \A k \in DOMAIN last.log[i].partial.l :
                 /\ InvokedAt(ElemPath(last.log[i], k))
                 /\ last.log[i].post.v[k] = DecodedAt(ElemPath(last.log[i], k))

FailingElems(c) ==
    SelectSeq([k \in DOMAIN c.partial.l |-> k], LAMBDA k : FailedAt(ElemPath(c, k)))

\* C6: when an element of the array fails, SliceMap.Unmarshal has still
\* called the element node for every element, returns an error tree with
\* exactly one child per failing element, named by the element's zero-based
\* index and in input order, and leaves the destination slice as it was.
C6_SliceCollectsElementErrors ==
    \A i \in DOMAIN last.log :
        IsSliceCall(last.log[i]) =>
            /\ (last.log[i].err = NilErr) <=> (FailingElems(last.log[i]) = <<>>)
            /\ last.log[i].err # NilErr =>
                 /\ \A k \in DOMAIN last.log[i].partial.l :
                      InvokedAt(ElemPath(last.log[i], k))
                 /\ last.log[i].err.kind = "FieldError"
                 /\ Len(last.log[i].err.FieldErrors) = Len(FailingElems(last.log[i]))
                 /\ \A k \in DOMAIN FailingElems(last.log[i]) :
                      last.log[i].err.FieldErrors[k].Field
                          = ToString(FailingElems(last.log[i])[k] - 1)
                 /\ last.log[i].post = last.log[i].pre

\* a slice call whose first element failed and whose later element decoded,
\* on a destination that held elements before
C6_Witness ==
    \E i \in DOMAIN last.log :
        /\ IsSliceCall(last.log[i])
        /\ Len(last.log[i].partial.l) >= 2
        /\ FailedAt(ElemPath(last.log[i], 1))
        /\ ~FailedAt(ElemPath(last.log[i], 2))
        /\ last.log[i].pre.v # <<>>

\* the list the specification describes for an error tree: the nodes below
\* the root in depth-first order, each with the names from the root down to
\* it behind a '/' each, those with an empty message left out
RECURSIVE PathList(_, _)
PathList(children, prefix) ==
    IF children = <<>> THEN <<>>
    ELSE (IF Head(children).Message # ""
          THEN <<[Path |-> prefix \o "/" \o Head(children).Field,
                  Message |-> Head(children).Message]>>
          ELSE <<>>)
         \o PathList(Head(children).FieldErrors, prefix \o "/" \o Head(children).Field)
         \o PathList(Tail(children), prefix)

IsFlattened == /\ last.op \in {"Unmarshal", "UnmarshalFresh"}
               /\ last.panic = ""
               /\ last.err # NilErr
               /\ last.err.kind = "ValidationError"

\* C7: the list TypeMapper.Unmarshal returns for the root node's error tree
\* has one (path, message) entry per node with a message, in depth-first
\* order, the path being the names from the root down to the node, each
\* behind a '/'; no path holds a name of a sibling's branch.
C7_FlattenListsEveryMessage ==
    IsFlattened => last.err.NestedErrors = PathList(last.log[1].err.FieldErrors, "")

\* an error list with entries for two siblings four levels below the root,
\* each with a child of its own
C7_Witness ==
    /\ IsFlattened
    /\ \E i, j \in DOMAIN last.err.NestedErrors :
         /\ i < j
         /\ last.err.NestedErrors[i].Path = "/things/0/inner_things/0/foo"
         /\ last.err.NestedErrors[j].Path = "/things/0/inner_things/1/foo"

\* the struct call that called the node of call c for one of its fields
Enclosing(c) ==
    last.log[CHOOSE i \in DOMAIN last.log :
                 /\ IsCall(last.log[i], "StructMap")
                 /\ last.log[i].at = SubSeq(c.at, 1, Len(c.at) - 1)]

\* the discriminator of union call c: the member of the parent structure the
\* union names, as it is when the union's descriptor is reached
Discriminator(c) == Referent(Get(c.parent)).f[c.node.switchOnFieldName]

UnknownType(c) ==
    NewValidationError("invalid type identifier: '" \o Discriminator(c).v \o "'")

\* C8: a union call that returns has used the string the named member of
\* the parent structure holds: when the table maps it, the call is that of
\* the mapped node on the same slot; when it does not, the error is "invalid
\* type identifier: '<value>'", the parent's error tree holds it under the
\* union field's name, and the union field is as it was.
C8_UnionPicksByParentField ==
    \A i \in DOMAIN last.log :
        (IsCall(last.log[i], "variableType") /\ last.log[i].panic = "") =>
            IF Discriminator(last.log[i]).v \in DOMAIN last.log[i].node.types
            THEN /\ i + 1 \in DOMAIN last.log
                 /\ last.log[i + 1].ev = "call"
                 /\ last.log[i + 1].at = last.log[i].at
                 /\ last.log[i + 1].node
                        = last.log[i].node.types[Discriminator(last.log[i]).v]
                 /\ last.log[i + 1].pre = last.log[i].pre
                 /\ last.log[i].post = last.log[i + 1].post
                 /\ last.log[i].err = last.log[i + 1].err
            ELSE /\ last.log[i].err = UnknownType(last.log[i])
                 /\ last.log[i].post = last.log[i].pre
                 /\ \A j \in DOMAIN last.log :
                      (j # i /\ last.log[j].ev = "call") => last.log[j].at # last.log[i].at
                 /\ Enclosing(last.log[i]).err # NilErr
                 /\ \E k \in DOMAIN Enclosing(last.log[i]).err.FieldErrors :
                      Enclosing(last.log[i]).err.FieldErrors[k]
                          = SetField(UnknownType(last.log[i]),
                                     last.log[i].at[Len(last.log[i].at)])

\* a union call whose parent held a discriminator the table does not know
\* while the input gave another value for the discriminator's key
C8_Witness ==
    \E i \in DOMAIN last.log :
        /\ IsCall(last.log[i], "variableType") /\ last.log[i].panic = ""
        /\ Discriminator(last.log[i]).v \notin DOMAIN last.log[i].node.types
        /\ Discriminator(last.log[i]).v # ""
        /\ Has(Enclosing(last.log[i]).partial.m, "inner_type")
        /\ Enclosing(last.log[i]).partial.m["inner_type"] # Discriminator(last.log[i])

\* the tokens of an object literal that lie directly inside its braces: keys,
\* colons, commas, scalar values and the opening token of each nested value
RECURSIVE Skeleton(_, _, _, _)
Skeleton(toks, i, depth, acc) ==
    IF i > Len(toks) THEN acc
    ELSE IF toks[i].t \in {"{", "["}
    THEN Skeleton(toks, i + 1, depth + 1, IF depth = 1 THEN Append(acc, toks[i]) ELSE acc)
    ELSE IF toks[i].t \in {"}", "]"}
    THEN Skeleton(toks, i + 1, depth - 1, acc)
    ELSE Skeleton(toks, i + 1, depth, IF depth = 1 THEN Append(acc, toks[i]) ELSE acc)

\* toks is one object literal with exactly the pairs named names, in that
\* order, a single comma between two pairs
IsObjectOf(toks, names, skel) ==
    /\ Len(toks) >= 2
    /\ toks[1].t = "{" /\ toks[Len(toks)].t = "}"
    /\ jsonValid(toks)
    /\ Len(skel) = 4 * Len(names) - 1
    /\ \A k \in DOMAIN names :
         /\ skel[4 * k - 3] = TStr(names[k])
         /\ skel[4 * k - 2].t = ":"
         /\ skel[4 * k - 1].t \notin {":", ","}
         /\ k < Len(names) => skel[4 * k].t = ","

\* C9: what StructMap.Marshal writes for a structure is one object literal
\* holding exactly one "name":value pair per field descriptor, read-only
\* ones included, in the order the descriptors are declared, with a single
\* comma between two pairs.
C9_MarshalWritesDeclaredOrder ==
    (last.op = "Marshal" /\ last.panic = "" /\ last.err = NilErr) =>
        IsObjectOf(last.out, NamesOf(TestTypeMapper[dest.name].Fields),
                   Skeleton(last.out, 1, 0, <<>>))

\* a Marshal of a structure with four descriptors, the first read-only,
\* whose declared order is not the byte order of the names
C9_Witness ==
    /\ last.op = "Marshal" /\ last.panic = "" /\ last.err = NilErr
    /\ dest.name = "RecordThing"
    /\ dest.f["Name"] # GoString("")

\* the struct calls given null for a pointer or an interface slot
IsNullCall(e) == IsCall(e, "StructMap") /\ e.partial.k = "nil" /\ e.pre.k \in {"ptr", "iface"}

NoFieldVisitedAt(at) ==
    \A j \in DOMAIN last.log : last.log[j].ev = "field" => last.log[j].at # at

\* C10, as the specification states it: given null for a pointer or
\* interface slot, StructMap.Unmarshal returns no error, visits no field
\* descriptor, and the slot is nil afterwards.
C10_NullLeavesSlotNil ==
    \A i \in DOMAIN last.log :
        IsNullCall(last.log[i]) =>
            /\ last.log[i].panic = "" /\ last.log[i].err = NilErr
            /\ NoFieldVisitedAt(last.log[i].at)
            /\ IsNone(last.log[i].post.e)

\* C10, amended: given null for a pointer or interface slot,
\* StructMap.Unmarshal returns no error, visits no field descriptor,
\* allocates nothing and leaves the slot as it was: nil when it was nil,
\* and still referring to the same structure when it was not.
C10_NullLeavesSlotUntouched ==
    \A i \in DOMAIN last.log :
        IsNullCall(last.log[i]) =>
            /\ last.log[i].panic = "" /\ last.log[i].err = NilErr
            /\ NoFieldVisitedAt(last.log[i].at)
            /\ last.log[i].post = last.log[i].pre

\* a struct call given null for a required field whose pointer slot refers
\* to a structure
C10_Witness ==
    \E i \in DOMAIN last.log :
        /\ IsNullCall(last.log[i])
        /\ last.log[i].pre.k = "ptr"
        /\ ~IsNone(last.log[i].pre.e)
        /\ ~Enclosing(last.log[i]).node.Fields[1].Optional

\* the calls of MapMap.Unmarshal that were given an object and returned
IsMapCall(e) == IsCall(e, "MapMap") /\ e.partial.k = "object" /\ e.panic = ""

FailingKeys(c) == {key \in DOMAIN c.partial.m : FailedAt(c.at \o <<key>>)}

\* C19: a MapMap.Unmarshal that is given an object leaves a new map in the
\* destination, with none of the entries the destination held; it has called
\* the element node for every key of the input, failed keys or not; the map
\* holds exactly the keys that decoded, each with the value its element node
\* left; and it returns an error exactly when a key failed, the error tree
\* having one child per failing key, named by that key.
C19_MapReplacedAndErrorsCollected ==
    \A i \in DOMAIN last.log :
        IsMapCall(last.log[i]) =>
            LET c == last.log[i] IN
            /\ ~c.post.nil
            /\ DOMAIN c.post.m = DOMAIN c.partial.m \ FailingKeys(c)
            /\ \A key \in DOMAIN c.partial.m : InvokedAt(c.at \o <<key>>)
            /\ \A key \in DOMAIN c.post.m : c.post.m[key] = DecodedAt(c.at \o <<key>>)
            /\ (c.err = NilErr) <=> (FailingKeys(c) = {})
            /\ c.err # NilErr =>
                 /\ c.err.kind = "FieldError"
                 /\ Len(c.err.FieldErrors) = Cardinality(FailingKeys(c))
                 /\ {c.err.FieldErrors[k].Field : k \in DOMAIN c.err.FieldErrors}
                        = FailingKeys(c)

\* a map call of two keys where the key that range yields first failed and the
\* other decoded, on a destination that held an entry under the failing key
C19_Witness ==
    \E i \in DOMAIN last.log :
        /\ IsMapCall(last.log[i])
        /\ Cardinality(DOMAIN last.log[i].partial.m) = 2
        /\ Cardinality(FailingKeys(last.log[i])) = 1
        /\ FailingKeys(last.log[i]) \subseteq DOMAIN last.log[i].pre.m
        /\ \E j \in DOMAIN last.log :
             /\ j > i
             /\ last.log[j].ev = "call"
             /\ last.log[j].err # NilErr
             /\ \A k \in (i + 1)..(j - 1) : last.log[k].ev # "call"

\* C11: when an Unmarshal returned no error, an Unmarshal of the same bytes
\* into the destination it left returns no error and leaves every member of
\* the destination as the first call left it.
C11_UnmarshalIdempotent ==
    [][(/\ last.op = "Unmarshal" /\ last.panic = "" /\ last.err = NilErr
        /\ last'.op = "Unmarshal" /\ last'.data = last.data)
          => (last'.panic = "" /\ last'.err = NilErr /\ last'.post = last.post)]_vars

\* the bytes are one JSON text whose value is an object
IsObjectText(data) ==
    LET IsObject(p) == p.ok /\ p.next = Len(data) + 1 /\ p.v.k = "object"
    IN IsObject(ParseValue(data, 1))

\* C12: an Unmarshal into a structure of a registered type whose bytes are
\* not valid JSON, or whose top-level value is no object, returns a validation
\* error (it neither faults nor succeeds) and leaves the destination as it was.
C12_BadInputRejected ==
    (/\ last.op = "Unmarshal"
     /\ last.pre.name \in DOMAIN TestTypeMapper
     /\ ~IsObjectText(last.data))
        => /\ last.panic = ""
           /\ last.err # NilErr
           /\ last.err.kind \in {"FieldError", "ValidationError"}
           /\ last.post = last.pre

\* C13: an Unmarshal whose destination is no pointer, or is nil, faults with
\* 'cannot unmarshal to non-pointer' whatever the bytes are, and returns
\* nothing.
C13_NoAddressFaults ==
    last.op = "UnmarshalNoAddress" => last.panic = "cannot unmarshal to non-pointer"

\* the type the registry looks up for a value: that of the value, of what it
\* points to, or of the elements of the slice it is
RECURSIVE Unwrapped(_)
Unwrapped(t) == IF t.k = "slice" THEN Unwrapped(t.of)
                ELSE IF t.k = "ptr" THEN Unwrapped(t.to) ELSE t

IsUnregistered(v) ==
    v.k \in {"struct", "ptr", "slice"} /\ Unwrapped(TypeOf(v)).k = "struct"
    /\ Unwrapped(TypeOf(v)).name \notin DOMAIN TestTypeMapper

\* C14: an Unmarshal into, or a Marshal of, a value whose type has no node
\* in the registry faults with 'no TypeMap registered for type' and returns
\* no error value, whatever the bytes are, malformed ones included.
C14_UnregisteredFaults ==
    (/\ last.op \in {"Unmarshal", "Marshal", "MarshalForm", "UnmarshalSlice"}
     /\ IsUnregistered(last.pre))
        => (last.panic = "no TypeMap registered for type" /\ last.err = NilErr)

\* an Unmarshal of malformed bytes into a structure of an unregistered type
C14_Witness ==
    /\ last.op = "Unmarshal"
    /\ IsUnregistered(last.pre)
    /\ ~jsonValid(last.data)
    /\ last.panic # ""


\* the forms of a registered type the registry unwraps: T, *T, []T and []*T
IsRegisteredForm(v) ==
    /\ ~IsUnregistered(v)
    /\ \/ v.k = "struct"
       \/ v.k = "ptr" /\ v.to.k = "struct"
       \/ v.k = "slice" /\ v.of.k = "struct"
       \/ v.k = "slice" /\ v.of.k = "ptr" /\ v.of.to.k = "struct"

\* the calls of the struct node that a decoding made for the elements of a
\* top-level array
ElementCalls(log) ==
    {i \in DOMAIN log : IsCall(log[i], "StructMap") /\ Len(log[i].at) = 1}

\* a Marshal of a T, a *T, a []T or a []*T finds T's node
C15_MarshalFormsResolve ==
    (last.op \in {"Marshal", "MarshalForm"} /\ IsRegisteredForm(last.pre))
        => last.panic # "no TypeMap registered for type"

\* C15: the registry resolves a T, a *T, a []T and a []*T of a registered
\* type T to T's node, for Marshal and for Unmarshal alike: an Unmarshal of a
\* JSON array into a pointer to a slice of T does not fault and calls T's node
\* once for each element of the array.
C15_SlicesResolve ==
    /\ C15_MarshalFormsResolve
    /\ (last.op = "UnmarshalSlice" /\ IsRegisteredForm(last.pre))
           => /\ last.panic = ""
              /\ \A l \in Lists({JObj(EmptyFn)}) :
                     jsonMarshal(JList(l)).data = last.data
                         => Cardinality(ElementCalls(last.log)) = Len(l)

\* a slice of a registered type was marshalled through its slice node
C15_MarshalSliceSeen ==
    /\ last.op = "MarshalForm"
    /\ last.pre.k = "slice"
    /\ IsRegisteredForm(last.pre)
    /\ last.panic = ""
    /\ last.err = NilErr


\* a descriptor with neither a node nor a validator, and one with both
HasNeither(f) == IsNone(f.Contains) /\ IsNone(f.Validator)
HasBoth(f) == ~IsNone(f.Contains) /\ ~IsNone(f.Validator)

\* the calls of StructMap.Unmarshal that were given an object, returned or not
IsStructRun(e) == IsCall(e, "StructMap") /\ e.partial.k = "object"

\* the loop of struct call c has come to descriptor f, found the member it
\* names and found a value for it in the input that it does not skip
Decodes(c, f) ==
    /\ ~f.ReadOnly
    /\ c.pre.k # "invalid"
    /\ f.StructFieldName \in FieldNames(c.node.UnderlyingType)
    /\ ~Absent(c, f)
    /\ ~Skipped(c, f)
    /\ \E i \in DOMAIN last.log : /\ last.log[i].ev = "field"
                                  /\ last.log[i].at = c.at
                                  /\ last.log[i].name = f.JSONFieldName

NeitherFault(f) == "Field must have Contains or Validator: " \o f.JSONFieldName

\* a struct call faults over a descriptor with neither exactly when it comes
\* to decode a value for it; one with both is decoded by its node
LooseDecode(c) ==
    \A k \in DOMAIN c.node.Fields :
        LET f == c.node.Fields[k] IN
        /\ (HasNeither(f) /\ Decodes(c, f)) => c.panic = NeitherFault(f)
        /\ c.panic = NeitherFault(f) => (HasNeither(f) /\ Decodes(c, f))
        /\ (HasBoth(f) /\ Decodes(c, f)) =>
               \E i \in DOMAIN last.log : /\ last.log[i].ev = "call"
                                          /\ last.log[i].at = c.at \o <<f.JSONFieldName>>
                                          /\ last.log[i].node = Get(f.Contains)

\* the registered structures with a descriptor that has neither or both, all
\* of whose descriptors name a member of the structure
LooseNames ==
    {n \in DOMAIN TestTypeMapper :
        /\ \E k \in DOMAIN TestTypeMapper[n].Fields :
               HasNeither(TestTypeMapper[n].Fields[k]) \/ HasBoth(TestTypeMapper[n].Fields[k])
        /\ \A k \in DOMAIN TestTypeMapper[n].Fields :
               TestTypeMapper[n].Fields[k].StructFieldName \in FieldNames(n)}

\* C16 as the code has it: a descriptor with neither Contains nor Validator
\* makes a decode fault, with 'Field must have Contains or Validator: <name>',
\* exactly when the descriptor is not read-only and the input carries a value
\* for it that is not skipped; a decode whose input lacks the key returns as
\* for any other descriptor. A descriptor with both is decoded by its Contains
\* node. An encode through such a struct node does not fault and returns the
\* object with the member in its default serialization.
C16_LooseDescriptorsDecodeAndEncode ==
    /\ \A i \in DOMAIN last.log : IsStructRun(last.log[i]) => LooseDecode(last.log[i])
    /\ (/\ last.op \in {"Marshal", "MarshalForm"}
        /\ IsRegisteredForm(last.pre)
        /\ Unwrapped(TypeOf(last.pre)).name \in LooseNames)
           => (last.panic = "" /\ last.err = NilErr /\ last.out # <<>>)

\* a decode that returned an error for a LooseThing: its descriptor with both
\* was decoded by its node, which rejected the value, and the key of the
\* descriptor with neither was absent
C16_Witness ==
    /\ last.op = "Unmarshal"
    /\ last.pre.name = "LooseThing"
    /\ last.panic = ""
    /\ \E i \in DOMAIN last.log :
           /\ IsCall(last.log[i], "primitiveMap")
           /\ last.log[i].at = <<"both">>
           /\ last.log[i].err # NilErr

\* a decode that faulted over the descriptor with neither
C16_FaultSeen == last.op = "Unmarshal" /\ last.panic = NeitherFault(LooseThingTypeMap.Fields[2])

\* an encode of a LooseThing that returned the object
C16_EncodeSeen ==
    /\ last.op = "Marshal"
    /\ last.pre.name = "LooseThing"
    /\ last.out # <<>>

\* C16, as claimed: no decode or encode through a struct node with a
\* descriptor that has both or neither returns; each one faults.
C16_LooseDescriptorsAlwaysFault ==
    (/\ last.op \in {"Unmarshal", "UnmarshalFresh", "Marshal", "MarshalForm"}
     /\ IsRegisteredForm(last.pre)
     /\ Unwrapped(TypeOf(last.pre)).name \in LooseNames
     /\ \/ last.op \in {"Marshal", "MarshalForm"}
        \/ \E i \in DOMAIN last.log : IsStructRun(last.log[i]))
        => last.panic # ""


\* C17: faults do not depend on the input: when an Unmarshal into a structure
\* has returned, with success or with an error value, the next Unmarshal into
\* the same structure, under the same configuration and with whatever bytes,
\* returns too.
C17_FaultsNotDataDependent ==
    [][(/\ last.op = "Unmarshal"
        /\ last.panic = ""
        /\ last'.op = "Unmarshal")
           => last'.panic = ""]_vars

\* a null for a required member whose validator accepts any value does not
\* make the decode fault
C17_NullIsReturnedAsError ==
    (/\ last.op = "Unmarshal"
     /\ last.pre.name = "ThingWithInterface")
        => last.panic = ""


\* the position in struct node sm of the descriptor with JSON name n
FieldIndex(sm, n) == CHOOSE k \in DOMAIN sm.Fields : sm.Fields[k].JSONFieldName = n

\* union call c's discriminator is a member that a descriptor declared before
\* the union's decodes from the same input, and the input's value for it is
\* accepted; Selector(c) is that descriptor
HasSelector(c) ==
    \E k \in DOMAIN Enclosing(c).node.Fields :
        LET d == Enclosing(c).node.Fields[k] IN
        /\ d.StructFieldName = c.node.switchOnFieldName
        /\ k < FieldIndex(Enclosing(c).node, c.at[Len(c.at)])
        /\ ~d.ReadOnly /\ IsNone(d.Contains) /\ ~IsNone(d.Validator)
        /\ ~Absent(Enclosing(c), d)
        /\ Validate(Get(d.Validator), Enclosing(c).partial.m[d.JSONFieldName]).err = NilErr
Selector(c) ==
    Enclosing(c).node.Fields[
        CHOOSE k \in DOMAIN Enclosing(c).node.Fields :
            Enclosing(c).node.Fields[k].StructFieldName = c.node.switchOnFieldName]

\* the discriminator value the input of the enclosing struct call carries
Selected(c) == Enclosing(c).partial.m[Selector(c).JSONFieldName].v

\* the position in the history of the moment struct call c came to the
\* descriptor with JSON name n
FieldAt(c, n) ==
    CHOOSE j \in DOMAIN last.log : /\ last.log[j].ev = "field"
                                   /\ last.log[j].at = c.at
                                   /\ last.log[j].name = n

\* C20: a struct node comes to its descriptors in declared order, and a
\* union field declared after its discriminator field, whose value in the
\* input is accepted, is decoded by the variant that this value selects (or
\* fails with "invalid type identifier" for this value), whatever the
\* discriminator member held before the call.
C20_UnionUsesSameInputDiscriminator ==
    \A i \in DOMAIN last.log :
        (/\ IsCall(last.log[i], "variableType")
         /\ last.log[i].panic = ""
         /\ HasSelector(last.log[i])) =>
            /\ FieldAt(Enclosing(last.log[i]), Selector(last.log[i]).JSONFieldName)
                   < FieldAt(Enclosing(last.log[i]), last.log[i].at[Len(last.log[i].at)])
            /\ IF Selected(last.log[i]) \in DOMAIN last.log[i].node.types
               THEN /\ i + 1 \in DOMAIN last.log
                    /\ last.log[i + 1].ev = "call"
                    /\ last.log[i + 1].at = last.log[i].at
                    /\ last.log[i + 1].node = last.log[i].node.types[Selected(last.log[i])]
               ELSE last.log[i].err
                        = NewValidationError("invalid type identifier: '"
                                             \o Selected(last.log[i]) \o "'")

\* a union call on a destination whose discriminator member held one known
\* variant while the input named the other
C20_Witness ==
    \E i \in DOMAIN last.log :
        /\ IsCall(last.log[i], "variableType")
        /\ last.log[i].panic = ""
        /\ HasSelector(last.log[i])
        /\ Selected(last.log[i]) \in DOMAIN last.log[i].node.types
        /\ Referent(Enclosing(last.log[i]).pre).f[last.log[i].node.switchOnFieldName].v
               \in DOMAIN last.log[i].node.types \ {Selected(last.log[i])}


\* what goroutine g's call gives when it runs alone: the sequential call on
\* the destination and bytes g started with
Alone(c) ==
    IF c.op = "Unmarshal"
    THEN LET Result(r) == [err |-> r.err, panic |-> r.panic, dst |-> r.dst, out |-> <<>>]
         IN Result(TypeMapperUnmarshal(TestTypeMapper, EmptyContext, c.data, AddrOf(c.pre)))
    ELSE LET Result(r) == [err |-> r.err, panic |-> r.panic, dst |-> c.pre, out |-> r.data]
         IN Result(TypeMapperMarshal(TestTypeMapper, EmptyContext, AddrOf(c.pre)))

SameAsAlone(g, alone) ==
    /\ goroutine[g].err = alone.err
    /\ goroutine[g].panic = alone.panic
    /\ goroutine[g].out = alone.out
    /\ mem[g] = alone.dst

\* C18: while two goroutines call the same TypeMapper, each with its own
\* destination, the registry stays as it was built; a destination is as its
\* owner's call has left it (untouched until that call starts); an error
\* accumulator in use belongs to the goroutine that uses it; and a call that
\* has ended has the result and the destination it has when it runs alone,
\* whatever the other goroutine did in between and does afterwards.
C18_ConcurrentCallsIndependent ==
    /\ typeMaps = TestTypeMapper
    /\ \A g \in DOMAIN goroutine :
         /\ goroutine[g].pc \in {"start", "parse", "enter", "encode"}
                => mem[g] = goroutine[g].pre
         /\ goroutine[g].pc \in {"field", "return"}
                => heap[goroutine[g].errs].by = g
         /\ goroutine[g].pc = "done" => SameAsAlone(g, Alone(goroutine[g]))

\* one call has ended with an error list while the other, which has recorded
\* an error too, is in the middle of its loop
C18_Witness ==
    /\ DOMAIN goroutine = G
    /\ \E g \in G, h \in G :
         /\ g # h
         /\ goroutine[g].pc = "done" /\ goroutine[g].err # NilErr
         /\ goroutine[g].errs # 0
         /\ goroutine[h].pc = "field" /\ goroutine[h].i > 1
         /\ Len(heap[goroutine[h].errs].node.FieldErrors) > 0

\* both calls have ended, one a decode and one an encode
C18_BothEnded ==
    /\ DOMAIN goroutine = G
    /\ goroutine[1].pc = "done" /\ goroutine[1].op = "Unmarshal"
    /\ goroutine[2].pc = "done" /\ goroutine[2].op = "Marshal"


\* a Marshal of a structure whose second descriptor is a union over its
\* first member, and the union node
IsUnionMarshal ==
    /\ last.op = "Marshal"
    /\ last.pre.k = "struct"
    /\ last.pre.name = "OuterVariableThing"
UnionNode == Get(OuterVariableThingTypeMap.Fields[2].Contains)

\* the object a Marshal of an OuterVariableThing writes around the bytes of
\* its union member
AroundUnion(typeKey, bytes) ==
    << Tok("{"), TStr("inner_type"), Tok(":"), TStr(typeKey), Tok(","),
       TStr("inner_thing"), Tok(":") >> \o bytes \o << Tok("}") >>

\* C21: the encode of a union member writes null when the member is nil,
\* whatever the discriminator is; otherwise it writes what the node that the
\* table holds for the parent's discriminator writes for the member, and it
\* faults, returning no error, when the table has no node for it.
C21_UnionEncode ==
    IsUnionMarshal =>
        LET typeKey == last.pre.f["InnerType"].v
            value == last.pre.f["InnerValue"]
            Delegated(r) == /\ last.panic = r.panic
                            /\ last.err = r.err
                            /\ (r.panic = "" /\ r.err = NilErr)
                                   => last.out = AroundUnion(typeKey, r.data)
        IN IF IsNil(value)
           THEN /\ last.panic = "" /\ last.err = NilErr
                /\ last.out = AroundUnion(typeKey, << Tok("null") >>)
           ELSE IF typeKey \in DOMAIN UnionNode.types
           THEN Delegated(TypeMapMarshal(UnionNode.types[typeKey], EmptyContext,
                                         Some(last.pre), value))
           ELSE /\ last.panic = "variable type serialization error: invalid type identifier: '"
                                  \o typeKey \o "'"
                /\ last.err = NilErr
                /\ last.out = <<>>

\* an encode with a nil union member under a discriminator the table lacks
C21_Witness ==
    /\ IsUnionMarshal
    /\ IsNil(last.pre.f["InnerValue"])
    /\ last.pre.f["InnerType"].v \notin DOMAIN UnionNode.types \cup {""}
    /\ last.out # <<>>

\* an encode that faulted over the discriminator, and one that delegated
C21_FaultSeen ==
    /\ IsUnionMarshal
    /\ ~IsNil(last.pre.f["InnerValue"])
    /\ last.pre.f["InnerType"].v \notin DOMAIN UnionNode.types
    /\ last.panic # ""
C21_DelegationSeen ==
    /\ IsUnionMarshal
    /\ ~IsNil(last.pre.f["InnerValue"])
    /\ last.pre.f["InnerType"].v = "bar"
    /\ last.out # <<>>


\* the descriptors of struct node sm that name no member of its structure
Typoed(sm) ==
    SelectSeq(sm.Fields, LAMBDA f : f.StructFieldName \notin FieldNames(sm.UnderlyingType))
NoSuchField(f) == "no such underlying field: " \o f.StructFieldName

\* struct call c came to descriptor f
CameTo(c, f) ==
    \E i \in DOMAIN last.log : /\ last.log[i].ev = "field"
                               /\ last.log[i].at = c.at
                               /\ last.log[i].name = f.JSONFieldName

\* a struct call given an object and a structure faults over its first
\* descriptor that is not read-only and names no member, or faults before it
\* has come to it; it does not fault over a read-only one
TypoedDecode(c) ==
    LET typos == SelectSeq(Typoed(c.node), LAMBDA f : ~f.ReadOnly) IN
    /\ typos # <<>> =>
          /\ c.panic # "" /\ c.err = NilErr
          /\ CameTo(c, typos[1]) => c.panic = NoSuchField(typos[1])
    /\ \A k \in DOMAIN Typoed(c.node) :
          Typoed(c.node)[k].ReadOnly => c.panic # NoSuchField(Typoed(c.node)[k])

\* C22 as the code has it: a descriptor that names no member of the structure
\* and is not read-only makes every decode of the owning struct node that is
\* given an object fault with 'no such underlying field: <name>', whether its
\* key is present or not and whatever errors the descriptors before it have
\* recorded; a read-only one is passed over by decode. Either makes every
\* encode of a structure through the node fault with that message.
C22_NoSuchFieldFaults ==
    /\ \A i \in DOMAIN last.log :
          (IsStructRun(last.log[i]) /\ last.log[i].pre.k # "invalid")
              => TypoedDecode(last.log[i])
    /\ (/\ last.op \in {"Marshal", "MarshalForm"}
        /\ IsRegisteredForm(last.pre)
        /\ Typoed(TestTypeMapper[Unwrapped(TypeOf(last.pre)).name]) # <<>>)
           => /\ last.panic
                    = NoSuchField(Typoed(TestTypeMapper[Unwrapped(TypeOf(last.pre)).name])[1])
              /\ last.err = NilErr

\* a decode that faulted over a descriptor whose key was absent, after the
\* descriptor before it had failed
C22_Witness ==
    /\ last.op = "Unmarshal"
    /\ last.pre.name = "TypoedRecordThing"
    /\ last.panic = "no such underlying field: Incorrect"
    /\ \E i \in DOMAIN last.log :
          /\ IsStructRun(last.log[i])
          /\ ~Has(last.log[i].partial.m, "correct")
          /\ Has(last.log[i].partial.m, "name")
          /\ last.log[i].partial.m["name"] = JStr(Long)

\* an encode that faulted over a read-only descriptor
C22_EncodeFaultSeen ==
    /\ last.op = "Marshal"
    /\ last.pre.name = "TypoedReadOnlyThing"
    /\ last.panic = "no such underlying field: PrimaryKee"

\* C22, as claimed: every decode that is given an object by a struct node
\* with a descriptor that names no member faults.
C22_EveryTypoedDecodeFaults ==
    \A i \in DOMAIN last.log :
        (/\ IsStructRun(last.log[i])
         /\ last.log[i].pre.k # "invalid"
         /\ Typoed(last.log[i].node) # <<>>)
            => last.log[i].panic \in {NoSuchField(Typoed(last.log[i].node)[k]) :
                                          k \in DOMAIN Typoed(last.log[i].node)}


\* the calls of SliceMap.Unmarshal that were given an array
IsSliceRun(e) == IsCall(e, "SliceMap") /\ e.partial.k = "list"

\* n lies within the bounds of slice node sm that are set
WithinRange(sm, n) ==
    /\ IsNone(sm.minLen) \/ Get(sm.minLen) <= n
    /\ IsNone(sm.maxLen) \/ n <= Get(sm.maxLen)

\* the events of the nodes that slice call c called for its elements
ElementEvents(c) ==
    {i \in DOMAIN last.log :
        /\ Len(last.log[i].at) > Len(c.at)
        /\ SubSeq(last.log[i].at, 1, Len(c.at)) = c.at}

\* the length errors of a slice node with bounds min and max
LengthErrors(min, max) ==
    { NewValidationError("must have at least " \o ToString(min) \o " elements"),
      NewValidationError("must have at most " \o ToString(max) \o " elements"),
      NewValidationError("must have " \o ToString(max) \o " elements"),
      NewValidationError("must have between " \o ToString(min) \o " and "
                         \o ToString(max) \o " elements") }

IsLengthError(e) == \E min \in 0..MaxBounded, max \in 0..MaxBounded : e \in LengthErrors(min, max)

\* C23: a SliceMap.Unmarshal that is given an array of a length outside the
\* bounds that are set returns one length error, has called no element node
\* and leaves the destination as it was; given an array of a length within
\* them it calls the element node for every element and returns no length
\* error.
C23_LengthBoundsChecked ==
    \A i \in DOMAIN last.log :
        (IsSliceRun(last.log[i]) /\ last.log[i].panic = "") =>
            IF WithinRange(last.log[i].node, Len(last.log[i].partial.l))
            THEN /\ ~IsLengthError(last.log[i].err)
                 /\ \A k \in DOMAIN last.log[i].partial.l :
                       \E j \in ElementEvents(last.log[i]) :
                           /\ last.log[j].ev = "call"
                           /\ last.log[j].at = last.log[i].at \o <<Itoa(k - 1)>>
            ELSE /\ IsLengthError(last.log[i].err)
                 /\ ElementEvents(last.log[i]) = {}
                 /\ last.log[i].post = last.log[i].pre

\* an array longer than both bounds allow, offered to a slice that holds an
\* element already
C23_Witness ==
    \E i \in DOMAIN last.log :
        /\ IsSliceRun(last.log[i])
        /\ ~IsNone(last.log[i].node.minLen) /\ ~IsNone(last.log[i].node.maxLen)
        /\ Get(last.log[i].node.minLen) < Get(last.log[i].node.maxLen)
        /\ Len(last.log[i].partial.l) > Get(last.log[i].node.maxLen)
        /\ Len(last.log[i].pre.v) > 0
        /\ last.log[i].err # NilErr

\* an array at the upper bound, accepted
C23_AtBoundSeen ==
    \E i \in DOMAIN last.log :
        /\ IsSliceRun(last.log[i])
        /\ ~IsNone(last.log[i].node.maxLen)
        /\ Len(last.log[i].partial.l) = Get(last.log[i].node.maxLen)
        /\ last.log[i].err = NilErr


\* last is an Unmarshal that accepted a document with exactly the mapped
\* keys, written in declared order
AcceptedExact ==
    /\ last.op = "Unmarshal"
    /\ last.panic = "" /\ last.err = NilErr
    /\ last.pre.name \in DOMAIN TestTypeMapper
    /\ jsonUnmarshal(last.data).err = ""
    /\ jsonUnmarshal(last.data).v.k = "object"
    /\ ExactDocument(TestTypeMapper[last.pre.name], jsonUnmarshal(last.data).v)
    /\ last.data = DeclaredOrderText(TestTypeMapper[last.pre.name], jsonUnmarshal(last.data).v)

\* document j can be written back from a zero destination: no read-only
\* descriptor and no Renderer node takes part, no validated field is null and
\* no array is empty
RECURSIVE Reproducible(_, _)
Reproducible(node, j) ==
    CASE node.kind = "StructMap" /\ j.k = "object" ->
           \A k \in DOMAIN node.Fields :
              /\ ~node.Fields[k].ReadOnly
              /\ IF IsNone(node.Fields[k].Contains)
                 THEN j.m[node.Fields[k].JSONFieldName] # JNull
                 ELSE Reproducible(ResolvedNode(Get(node.Fields[k].Contains), node, j.m),
                                   j.m[node.Fields[k].JSONFieldName])
      [] node.kind = "SliceMap" /\ j.k = "list" ->
           /\ j.l # <<>>
           /\ \A i \in DOMAIN j.l : Reproducible(node.Contains, j.l[i])
      [] node.kind = "MapMap" /\ j.k = "object" ->
           \A key \in DOMAIN j.m : Reproducible(node.Contains, j.m[key])
      [] node.kind = "stringRenderer" -> FALSE
      [] OTHER -> TRUE

C24_EmptyArraySeen ==
    /\ AcceptedExact
    /\ last.pre = Zero(TypeOf(last.pre))
    /\ calls < MaxCalls
    /\ \E key \in DOMAIN jsonUnmarshal(last.data).v.m :
          jsonUnmarshal(last.data).v.m[key] = JList(<<>>)

\* ------------------------------------------------------------------ C25
\* the struct call of the log that ran the validator of validate event e
ValidatingCall(e) ==
    last.log[CHOOSE i \in DOMAIN last.log :
                 /\ IsCall(last.log[i], "StructMap")
                 /\ last.log[i].at = SubSeq(e.at, 1, Len(e.at) - 1)]

\* what the validator of validate event e returned for the event's value
ValidatorResult(e) ==
    LET sm == ValidatingCall(e).node
        k == CHOOSE k \in DOMAIN sm.Fields : sm.Fields[k].JSONFieldName = e.at[Len(e.at)]
    IN Validate(Get(sm.Fields[k].Validator), e.value)

\* validate event e was logged by the loop of a struct node
ByStructField(e) ==
    /\ e.ev = "validate"
    /\ \A i \in DOMAIN last.log :
          ~(IsCall(last.log[i], "primitiveMap") /\ last.log[i].at = e.at)

\* the validate events whose validator returned an error that is no
\* validation error
UnexpectedErrors ==
    {i \in DOMAIN last.log :
        /\ ByStructField(last.log[i])
        /\ ValidatorResult(last.log[i]).err.kind = "error"}

\* C25: when a field's validator returns an error that is not a validation
\* error, Unmarshal returns the validator's own error: not a validation
\* error, with exactly the validator's message.
C25_UnexpectedErrorReturnedAsIs ==
    (last.op = "Unmarshal" /\ last.panic = "") =>
        \A i \in UnexpectedErrors :
            last.err = ValidatorResult(last.log[i]).err

\* what the code does instead: the error comes back as a validation error
\* that names the field and carries the validator's message
C25_UnexpectedErrorSeen ==
    /\ last.op = "Unmarshal" /\ last.panic = ""
    /\ \E i \in UnexpectedErrors :
          /\ last.err.kind = "ValidationError"
          /\ last.err.NestedErrors =
                << NewFlattenedPathError("/" \o last.log[i].at[1],
                                         ValidatorResult(last.log[i]).err.Message) >>

\* ------------------------------------------------------------------ C26
\* the text a LabelledThing's rendered field has under context ctx
LabelledText(ctx, thing) ==
    JStr(ctx.f.Foo.v \o ":" \o thing.f.Label.v \o ":" \o thing.f.SomeField.v)

\* what a successful Marshal of dest under context ctx has to parse as
RenderedDocument(ctx, d) ==
    CASE d.name = "TemplatableThing" ->
           JObj([some_field |-> JStr(ctx.f.Foo.v \o ":" \o d.f.SomeField.v)])
      [] d.name = "LabelledThing" ->
           JObj([label |-> JStr(d.f.Label.v), some_field |-> LabelledText(ctx, d)])
      [] d.name = "OuterLabelledThing" ->
           JObj([things |->
                   JList([k \in DOMAIN d.f.Things.v |->
                            JObj([label |-> JStr(d.f.Things.v[k].f.Label.v),
                                  some_field |-> LabelledText(ctx, d.f.Things.v[k])])])])

\* dest has a field that a Renderer node writes
HasRendered(d) ==
    \/ d.name \in {"TemplatableThing", "LabelledThing"}
    \/ d.name = "OuterLabelledThing" /\ d.f.Things.v # <<>>

\* every nested Decode call of the last Unmarshal was given the caller's context
DecodeCallsGetContext ==
    last.op = "Unmarshal" =>
        \A i \in DOMAIN last.log :
            last.log[i].ev = "call" => last.log[i].ctx = last.ctx

\* every Renderer node of the last Marshal has rendered with the caller's
\* context, the structure that holds its field and the field's value; without
\* a context the template cannot be executed and Marshal returns its error
RenderersGetContext ==
    (last.op = "Marshal" /\ HasRendered(last.pre)) =>
        /\ last.panic = ""
        /\ IF last.ctx = EmptyContext
           THEN last.err = errorsNew("template: nil pointer evaluating interface {}.Foo")
           ELSE /\ last.err = NilErr
                /\ jsonUnmarshal(last.out).err = ""
                /\ jsonUnmarshal(last.out).v = RenderedDocument(last.ctx, last.pre)

\* what Unmarshal returns and leaves does not depend on the context (shown
\* for the structures without a map, whose errors come in the range order of
\* the call)
DecodeIgnoresContext ==
    (last.op = "Unmarshal" /\ last.pre.name # "ThingWithMapOfPrimitives") =>
        LET Same(r) == r.err = last.err /\ r.panic = last.panic /\ r.dst = last.post
        IN Same(TypeMapperUnmarshal(TestTypeMapper, EmptyContext, last.data,
                                    AddrOf(last.pre)))

\* every validator of the last Unmarshal was given the caller's context
ValidatorsGetContext ==
    last.op = "Unmarshal" =>
        \A i \in DOMAIN last.log :
            last.log[i].ev = "validate" =>
                /\ "ctx" \in DOMAIN last.log[i]
                /\ last.log[i].ctx = last.ctx

\* C26, as claimed: the caller's context reaches every nested Decode and
\* Encode call unchanged, every Renderer node renders with it, with the
\* parent value and with the field's value, and validators are given it too.
C26_ContextReachesValidators ==
    DecodeCallsGetContext /\ RenderersGetContext /\ ValidatorsGetContext

\* C26, as the code has it: the caller's context reaches every nested Decode
\* and Encode call unchanged and every Renderer node renders with it, with the
\* parent value and with the field's value; a validator is given the field's
\* value only, and no decode depends on the context.
C26_ContextThreaded ==
    DecodeCallsGetContext /\ RenderersGetContext /\ DecodeIgnoresContext

\* a Marshal with a context has rendered fields two nodes below the top
C26_Witness ==
    /\ last.op = "Marshal"
    /\ last.pre.name = "OuterLabelledThing"
    /\ Len(last.pre.f.Things.v) = 2
    /\ last.ctx = FooContext("qux")
    /\ last.err = NilErr

\* an Unmarshal with a context has run validators two nodes below the top
C26_ValidatorSeen ==
    /\ last.op = "Unmarshal"
    /\ last.ctx = FooContext("foo")
    /\ \E i \in DOMAIN last.log :
          last.log[i].ev = "validate" /\ Len(last.log[i].at) >= 3

\* ------------------------------------------------------------------ C27
\* how deep the tree of nodes below and with node is
RECURSIVE Depth(_)
Depth(node) ==
    CASE node.kind = "StructMap" ->
           1 + Greatest({Depth(Get(node.Fields[k].Contains)) : k \in
                           {i \in DOMAIN node.Fields : ~IsNone(node.Fields[i].Contains)}})
      [] node.kind \in {"SliceMap", "MapMap"} -> 1 + Depth(node.Contains)
      [] node.kind = "variableType" ->
           1 + Greatest({Depth(node.types[t]) : t \in DOMAIN node.types})
      [] OTHER -> 1

\* how deep the arrays and objects of a JSON value are nested
RECURSIVE JSONDepth(_)
JSONDepth(j) ==
    CASE j.k = "object" -> 1 + Greatest({JSONDepth(j.m[key]) : key \in DOMAIN j.m})
      [] j.k = "list" -> 1 + Greatest({JSONDepth(j.l[i]) : i \in DOMAIN j.l})
      [] OTHER -> 0

\* no goroutine has nested more Decode calls than the tree of its node is deep
WithinDepth ==
    \A g \in G :
        goroutine[g].depth <= (IF IsNone(goroutine[g].m) THEN 0
                               ELSE Depth(Get(goroutine[g].m)))

\* C27: every Unmarshal and Marshal call finishes, with a value or a fault,
\* and a decode never nests more Decode calls than the tree of registered
\* nodes is deep, however deeply the input is nested.
C27_CallsFinishWithinDepth ==
    /\ \A g \in G : <>(goroutine[g].pc = "done")
    /\ []WithinDepth

\* a decode of a document nested more deeply than the tree of nodes has ended
\* after nesting as many Decode calls as the tree is deep
C27_Witness ==
    \E g \in G :
        /\ goroutine[g].op = "Unmarshal" /\ goroutine[g].pc = "done"
        /\ goroutine[g].panic = ""
        /\ goroutine[g].depth = Depth(Get(goroutine[g].m))
        /\ goroutine[g].depth >= 3
        /\ JSONDepth(goroutine[g].partial) > goroutine[g].depth

\* a Marshal has ended beside a decode that nested five Decode calls
C27_MarshalSeen ==
    \E g \in G, h \in G :
        /\ goroutine[g].op = "Marshal" /\ goroutine[g].pc = "done"
        /\ goroutine[h].op = "Unmarshal" /\ goroutine[h].pc = "done"
        /\ goroutine[h].depth = 5

\* ------------------------------------------------------------------ C28
\* the structure behind a destination: the structure itself, or the one a
\* pointer or an interface slot leads to
StructBehind(v) ==
    IF v.k = "struct" THEN v
    ELSE IF v.k = "ptr" THEN Get(v.e)
    ELSE IF Get(v.e).k = "ptr" THEN Get(Get(v.e).e) ELSE Get(v.e)

\* the structure struct call c started from: the destination structure, or
\* the new instance it put into a pointer or an interface slot
StartedFrom(c) ==
    IF c.pre.k = "struct" THEN c.pre ELSE Zero(TStruct(c.node.UnderlyingType))

\* the struct calls of the log that were given an object and returned an
\* error, of nodes whose descriptors name different members
FailedStructCalls ==
    {i \in DOMAIN last.log :
        /\ IsCall(last.log[i], "StructMap")
        /\ last.log[i].partial.k = "object"
        /\ last.log[i].panic = "" /\ last.log[i].err # NilErr
        /\ last.log[i].pre.k \in {"struct", "ptr", "iface"}
        /\ \A k1, k2 \in DOMAIN last.log[i].node.Fields :
              last.log[i].node.Fields[k1].StructFieldName
                  = last.log[i].node.Fields[k2].StructFieldName => k1 = k2}

\* the descriptors of struct call c that name a member
MemberFields(c) ==
    {k \in DOMAIN c.node.Fields :
        c.node.Fields[k].StructFieldName \in FieldNames(c.node.UnderlyingType)}

\* the calls the loop of struct call c made to the node of descriptor f, and
\* the validations it made for f
NodeCalls(c, f) ==
    {i \in DOMAIN last.log : /\ last.log[i].ev = "call"
                             /\ last.log[i].at = c.at \o <<f.JSONFieldName>>}
Validations(c, f) ==
    {i \in DOMAIN last.log : /\ last.log[i].ev = "validate"
                             /\ last.log[i].at = c.at \o <<f.JSONFieldName>>}

\* descriptor f of struct call c decoded its input without an error
Succeeded(c, f) ==
    IF ~IsNone(f.Contains)
    THEN \E i \in NodeCalls(c, f) : last.log[i].err = NilErr
    ELSE \E i \in Validations(c, f) :
            Validate(Get(f.Validator), last.log[i].value).err = NilErr

\* what member f.StructFieldName holds after struct call c: what the nested
\* call left, failed or not; the validator's value when it accepted; else
\* what the member held before
LeftIn(c, f) ==
    LET before == StartedFrom(c).f[f.StructFieldName] IN
    IF ~IsNone(f.Contains)
    THEN IF NodeCalls(c, f) = {} THEN before
         ELSE last.log[CHOOSE i \in NodeCalls(c, f) : TRUE].post
    ELSE IF Validations(c, f) = {} THEN before
         ELSE LET v == Validate(Get(f.Validator),
                                last.log[CHOOSE i \in Validations(c, f) : TRUE].value)
              IN IF v.err # NilErr THEN before ELSE ReflectSet(before, v.val).v

\* C28, as claimed: after a struct decode that returned an error, only the
\* members whose field decoded without an error differ from what the
\* destination held before.
C28_OnlySuccessfulFieldsWritten ==
    \A i \in FailedStructCalls :
        \A k \in MemberFields(last.log[i]) :
            \/ Succeeded(last.log[i], last.log[i].node.Fields[k])
            \/ StructBehind(last.log[i].post).f[last.log[i].node.Fields[k].StructFieldName]
                   = StartedFrom(last.log[i]).f[last.log[i].node.Fields[k].StructFieldName]

\* C28, as the code has it: a failed struct decode is not rolled back, and
\* neither are the nested decodes it made. Every member holds what its
\* field's nested call left, whether that call failed or not, or the value its
\* validator accepted; a member whose validator rejected the input, or whose
\* field was skipped, holds what it held before.
C28_NothingRolledBack ==
    \A i \in FailedStructCalls :
        \A k \in MemberFields(last.log[i]) :
            StructBehind(last.log[i].post).f[last.log[i].node.Fields[k].StructFieldName]
                = LeftIn(last.log[i], last.log[i].node.Fields[k])

\* a struct decode has failed with one field rejected by its validator, one
\* field decoded after it, and one nested decode that failed and wrote
C28_Witness ==
    /\ \E i \in FailedStructCalls :
          \E k1, k2 \in MemberFields(last.log[i]) :
             /\ k1 < k2
             /\ IsNone(last.log[i].node.Fields[k1].Contains)
             /\ Validations(last.log[i], last.log[i].node.Fields[k1]) # {}
             /\ ~Succeeded(last.log[i], last.log[i].node.Fields[k1])
             /\ Succeeded(last.log[i], last.log[i].node.Fields[k2])
             /\ StructBehind(last.log[i].post).f[last.log[i].node.Fields[k2].StructFieldName]
                  # StartedFrom(last.log[i]).f[last.log[i].node.Fields[k2].StructFieldName]
    /\ \E i \in FailedStructCalls :
          \E k \in MemberFields(last.log[i]) :
             /\ ~IsNone(last.log[i].node.Fields[k].Contains)
             /\ ~Succeeded(last.log[i], last.log[i].node.Fields[k])
             /\ StructBehind(last.log[i].post).f[last.log[i].node.Fields[k].StructFieldName]
                  # StartedFrom(last.log[i]).f[last.log[i].node.Fields[k].StructFieldName]

\* ------------------------------------------------------------------ C29
\* the position of union call c's descriptor in the enclosing struct node,
\* and the positions of the descriptors that decode its discriminator member
UnionIndex(c) == FieldIndex(Enclosing(c).node, c.at[Len(c.at)])
Discriminators(c) ==
    {k \in DOMAIN Enclosing(c).node.Fields :
        LET d == Enclosing(c).node.Fields[k] IN
        /\ d.StructFieldName = c.node.switchOnFieldName
        /\ ~d.ReadOnly /\ IsNone(d.Contains) /\ ~IsNone(d.Validator)}

\* the input of the enclosing call has no discriminator key
DiscriminatorAbsent(c) ==
    \E k \in Discriminators(c) :
        k < UnionIndex(c) /\ Absent(Enclosing(c), Enclosing(c).node.Fields[k])

\* the discriminator's validator rejects what the input carries for it
Rejects(c, k) ==
    LET d == Enclosing(c).node.Fields[k] IN
    /\ ~Absent(Enclosing(c), d)
    /\ Validate(Get(d.Validator), Enclosing(c).partial.m[d.JSONFieldName]).err # NilErr
DiscriminatorRejected(c) ==
    \E k \in Discriminators(c) : k < UnionIndex(c) /\ Rejects(c, k)

\* the discriminator's descriptor comes after the union's
DiscriminatorAfter(c) == \E k \in Discriminators(c) : k > UnionIndex(c)

\* the union calls of the log, made from a struct call that returned, that
\* found no discriminator decoded from the same input
StaleUnionCalls ==
    {i \in DOMAIN last.log :
        /\ IsCall(last.log[i], "variableType")
        /\ last.log[i].panic = ""
        /\ Enclosing(last.log[i]).panic = ""
        /\ \/ DiscriminatorAbsent(last.log[i])
           \/ DiscriminatorRejected(last.log[i])
           \/ DiscriminatorAfter(last.log[i])}

\* what the discriminator member held when the enclosing struct call began
HeldBefore(c) == StartedFrom(Enclosing(c)).f[c.node.switchOnFieldName].v

\* union call i was resolved by the value the discriminator member held before
ResolvedByHeld(i) ==
    IF HeldBefore(last.log[i]) \in DOMAIN last.log[i].node.types
    THEN /\ i + 1 \in DOMAIN last.log
         /\ last.log[i + 1].ev = "call"
         /\ last.log[i + 1].at = last.log[i].at
         /\ last.log[i + 1].node = last.log[i].node.types[HeldBefore(last.log[i])]
    ELSE last.log[i].err
             = NewValidationError("invalid type identifier: '"
                                  \o HeldBefore(last.log[i]) \o "'")

\* the error struct call c returned has an entry for JSON name n
Reports(c, n) ==
    /\ c.err # NilErr
    /\ \E j \in DOMAIN c.err.FieldErrors : c.err.FieldErrors[j].Field = n
ReportsUnion(c) ==
    /\ Enclosing(c).err # NilErr
    /\ \E j \in DOMAIN Enclosing(c).err.FieldErrors :
          /\ Enclosing(c).err.FieldErrors[j].Field = c.at[Len(c.at)]
          /\ Enclosing(c).err.FieldErrors[j].Message = "invalid type identifier: ''"

\* the discriminator of union call c has an error of its own: its key is
\* absent though required, or its validator rejects the value
DiscriminatorFails(c) ==
    \E k \in Discriminators(c) :
        \/ /\ Absent(Enclosing(c), Enclosing(c).node.Fields[k])
           /\ ~Enclosing(c).node.Fields[k].Optional
        \/ Rejects(c, k)
ReportsDiscriminator(c) ==
    \E k \in Discriminators(c) :
        Reports(Enclosing(c), Enclosing(c).node.Fields[k].JSONFieldName)

\* C29, as claimed: a union whose discriminator is absent from the input,
\* rejected, or declared after it is resolved by the value the destination
\* held before the call, and with a zero-valued destination the call reports
\* the union's invalid-type-identifier error and the discriminator's error.
C29_StaleDiscriminatorAndBothErrors ==
    \A i \in StaleUnionCalls :
        /\ ResolvedByHeld(i)
        /\ HeldBefore(last.log[i]) = "" =>
              ReportsUnion(last.log[i]) /\ ReportsDiscriminator(last.log[i])

\* C29, as the code has it: the same, except that the discriminator has an
\* error of its own only when its key is absent though required or its
\* validator rejects the value; a discriminator declared after the union
\* and accepted reports none, and the union's error is then the only one.
C29_StaleDiscriminatorSelects ==
    \A i \in StaleUnionCalls :
        /\ ResolvedByHeld(i)
        /\ HeldBefore(last.log[i]) = "" =>
              /\ ReportsUnion(last.log[i])
              /\ ReportsDiscriminator(last.log[i]) <=> DiscriminatorFails(last.log[i])

\* a second Unmarshal, whose input has no accepted discriminator, has decoded
\* its union by the variant the first Unmarshal left in the destination
C29_Witness ==
    /\ calls = 2
    /\ \E i \in StaleUnionCalls :
          /\ DiscriminatorAbsent(last.log[i]) \/ DiscriminatorRejected(last.log[i])
          /\ HeldBefore(last.log[i]) \in DOMAIN last.log[i].node.types
          /\ last.log[i].err = NilErr

\* a zero-valued destination has reported the union's error and the
\* discriminator's
C29_BothErrorsSeen ==
    \E i \in StaleUnionCalls :
        /\ DiscriminatorAbsent(last.log[i]) \/ DiscriminatorRejected(last.log[i])
        /\ HeldBefore(last.log[i]) = ""
        /\ ReportsUnion(last.log[i]) /\ ReportsDiscriminator(last.log[i])

\* a union declared before its discriminator has been resolved by the value
\* an earlier Unmarshal left, while the input named the other variant
C29_DeclaredAfterSeen ==
    \E i \in StaleUnionCalls :
        /\ DiscriminatorAfter(last.log[i])
        /\ HeldBefore(last.log[i]) \in DOMAIN last.log[i].node.types
        /\ Has(Enclosing(last.log[i]).partial.m, "inner_type")
        /\ Enclosing(last.log[i]).partial.m["inner_type"].k = "string"
        /\ Enclosing(last.log[i]).partial.m["inner_type"].v
               \in DOMAIN last.log[i].node.types \ {HeldBefore(last.log[i])}

\* ------------------------------------------------------------------ C30
\* the keys of object m that a descriptor of struct node sm names, and m
\* without the others
NamedKeys(sm, m) ==
    {key \in DOMAIN m : \E i \in DOMAIN sm.Fields : sm.Fields[i].JSONFieldName = key}
WithoutUnnamed(sm, m) == [key \in NamedKeys(sm, m) |-> m[key]]

\* the struct calls of the log that were given an object
ObjectCalls ==
    {i \in DOMAIN last.log : /\ IsCall(last.log[i], "StructMap")
                             /\ last.log[i].partial.k = "object"}

\* the error, the fault and the destination of a decode
Outcome(r) == [err |-> r.err, panic |-> r.panic, dst |-> r.dst]

\* what struct call c gives for its object without the keys no descriptor
\* names
OutcomeWithoutUnnamed(c) ==
    Outcome(TypeMapUnmarshal(c.node, c.ctx, c.parent,
                             JObj(WithoutUnnamed(c.node, c.partial.m)), c.pre))

\* struct call c made a map call, whose errors come in the order of the
\* runtime's range statement
RangedBelow(c) ==
    \E j \in DOMAIN last.log :
        /\ IsCall(last.log[j], "MapMap")
        /\ Len(last.log[j].at) >= Len(c.at)
        /\ SubSeq(last.log[j].at, 1, Len(c.at)) = c.at

\* C30: a struct decode ignores the keys of its object that no descriptor
\* names: at every depth, the call returns the error (or nil, or the fault)
\* and leaves the destination that it does for the same object without
\* those keys, so two objects that differ in such keys only are decoded
\* alike. Below a map the errors are the same up to the order in which the
\* runtime ranges over the map's keys.
C30_UnnamedKeysIgnored ==
    \A i \in ObjectCalls :
        /\ last.log[i].panic = OutcomeWithoutUnnamed(last.log[i]).panic
        /\ last.log[i].post = OutcomeWithoutUnnamed(last.log[i]).dst
        /\ IF RangedBelow(last.log[i])
           THEN (last.log[i].err = NilErr)
                    <=> (OutcomeWithoutUnnamed(last.log[i]).err = NilErr)
           ELSE last.log[i].err = OutcomeWithoutUnnamed(last.log[i]).err

\* a struct call has decoded an object with a key no descriptor names, has
\* written a member and has returned an error for another
C30_Witness ==
    \E i \in ObjectCalls :
        /\ NamedKeys(last.log[i].node, last.log[i].partial.m)
               # DOMAIN last.log[i].partial.m
        /\ NamedKeys(last.log[i].node, last.log[i].partial.m) # {}
        /\ last.log[i].panic = ""
        /\ last.log[i].err # NilErr
        /\ last.log[i].post # last.log[i].pre

\* a struct call has decoded an object with a key no descriptor names without
\* an error
C30_SuccessSeen ==
    \E i \in ObjectCalls :
        /\ NamedKeys(last.log[i].node, last.log[i].partial.m)
               # DOMAIN last.log[i].partial.m
        /\ last.log[i].panic = ""
        /\ last.log[i].err = NilErr
        /\ last.log[i].post # last.log[i].pre

====
